---- MODULE Spec2Model ----
(***************************************************************************)
(* Machine Center: the hierarchical graph store and its structural        *)
(* mutations (cascading delete, subtree duplication, root resolution),    *)
(* the attention scanner, and the undo/redo history hook.                  *)
(*                                                                         *)
(* Ids are naturals.  NoId stands for the empty string '' (top-level      *)
(* parentId) and for null (nothing selected).  uuid() is a counter: every *)
(* call returns an id never returned before and different from every id   *)
(* an imported document can carry.                                         *)
(***************************************************************************)
EXTENDS Integers, Sequences, FiniteSets, TLC

VARIABLES
    db,        \* the record store: one set of rows per table
    nextId,    \* number of uuid() calls made so far
    ops,       \* number of handlers run so far that wrote to the store
    now,       \* Date.now(), in half days
    page,      \* the mounted route: "dashboard" or "whiteboard"
    dash,      \* Dashboard component state
    wb,        \* WhiteboardInner component state
    last,      \* what the last handler was, its argument and the store before it
    scan,      \* useDashboardScan / getSeverity results
    hook,      \* useUndoRedo state with the flow state it is given
    track      \* bookkeeping of the last history calls

vars == <<db, nextId, ops, now, page, dash, wb, last, scan, hook, track>>

----------------------------------------------------------------------------
(* Bounds of the model *)

\* handlers that write to the store, per behaviour of Spec
MaxOps == 3
\* the last clock value of SpecScan, in ticks
MaxNow == 44
\* the clock ticks that make a day
TicksPerDay == 2
\* canvas edits and history calls, per behaviour of SpecHist
MaxHistOps == 7
\* moves of the caller, and its undo and redo calls, per behaviour of SpecCap
MaxMoves == 52
MaxReplays == 2
\* lookups of a root-resolution walk that SpecWalk follows
MaxVisits == 6
\* store writes of other handlers that SpecRace lets resolve around a scan
MaxWrites == 2
\* edits of the canvas and calls of the hook, per behaviour of SpecRender
MaxCalls == 6
\* calls of handleUpdateNode per behaviour of SpecUpdate
MaxUpdates == 3
\* duplicates per behaviour of SpecClone
MaxClones == 2

----------------------------------------------------------------------------
(* Ids, statuses, node types *)

NoId == 0

uuid(k) == 100 + k

NodeTypes == {"machine", "sop", "tool", "skill", "note"}

StatusIds == {"running", "under", "blocked", "not-built", "optimizing", "paused"}

\* The inputs the handlers are exercised with.
AddTypes == {"machine", "sop"}
PickStatuses == {"running", "blocked"}

----------------------------------------------------------------------------
(* Rows *)

NodeRow(id, parentId, type, label, statusId, steps, at) ==
    [id |-> id, parentId |-> parentId, type |-> type, label |-> label,
     statusId |-> statusId, steps |-> steps, updatedAt |-> at]

EdgeRow(id, parentId, source, target) ==
    [id |-> id, parentId |-> parentId, source |-> source, target |-> target]

ProblemRow(id, machineNodeId, status, at) ==
    [id |-> id, machineNodeId |-> machineNodeId, status |-> status, createdAt |-> at]

VCRow(id, machineNodeId, met) ==
    [id |-> id, machineNodeId |-> machineNodeId, met |-> met]

StatusChangeRow(id, machineNodeId, from, to, at) ==
    [id |-> id, machineNodeId |-> machineNodeId, fromStatusId |-> from,
     toStatusId |-> to, changedAt |-> at]

EventRow(id, nodeId, eventType, previousValue, newValue) ==
    [id |-> id, nodeId |-> nodeId, eventType |-> eventType,
     previousValue |-> previousValue, newValue |-> newValue]

CaptureRow(id, processed, at) ==
    [id |-> id, processed |-> processed, createdAt |-> at]

EmptyDb ==
    [nodes |-> {}, edges |-> {}, problems |-> {}, victoryConditions |-> {},
     statusChanges |-> {}, events |-> {}, captures |-> {}]

----------------------------------------------------------------------------
(* Store queries *)

Ids(rows) == {r.id : r \in rows}

\* db.nodes.where('parentId').equals(p).toArray()
WhereParent(rows, p) == {r \in rows : r.parentId = p}

\* db.<table>.where('machineNodeId').equals(n)
WhereMachineNode(rows, n) == {r \in rows : r.machineNodeId = n}

\* Rows come back from the store as an array; the model lists them by id.
RECURSIVE ToArray(_)
ToArray(rows) ==
    IF rows = {} THEN <<>>
    ELSE LET m == CHOOSE x \in rows : \A y \in rows : x.id <= y.id
         IN  <<m>> \o ToArray(rows \ {m})

\* db.nodes.get(id): the set holding the row, or {} for undefined
Get(rows, id) == {r \in rows : r.id = id}

----------------------------------------------------------------------------
(* Cascading delete: Dashboard confirmDelete / deleteRecursive *)

RECURSIVE deleteRecursive(_, _), deleteEach(_, _)

\* for (const child of children) await deleteRecursive(child.id)
deleteEach(d, children) ==
    IF children = <<>> THEN d
    ELSE deleteEach(deleteRecursive(d, Head(children).id), Tail(children))

deleteRecursive(d, nodeId) ==
    LET children == ToArray(WhereParent(d.nodes, nodeId))
        d1 == deleteEach(d, children)
    IN  [d1 EXCEPT
            !.edges = {e \in @ : e.parentId # nodeId},
            !.problems = {p \in @ : p.machineNodeId # nodeId},
            !.victoryConditions = {v \in @ : v.machineNodeId # nodeId},
            !.statusChanges = {c \in @ : c.machineNodeId # nodeId},
            !.nodes = {n \in @ : n.id # nodeId}]

(* The dry run before the confirmation modal: prepareDelete / countRecursive *)

ZeroTotals ==
    [nodes |-> 0, sops |-> 0, tools |-> 0, skills |-> 0, notes |-> 0,
     problems |-> 0, edges |-> 0]

AddTotals(a, b) ==
    [nodes |-> a.nodes + b.nodes, sops |-> a.sops + b.sops,
     tools |-> a.tools + b.tools, skills |-> a.skills + b.skills,
     notes |-> a.notes + b.notes, problems |-> a.problems + b.problems,
     edges |-> a.edges + b.edges]

\* a count that puts a child of any kind under nodes
TypeTotals_allUnderNodes(type) == [ZeroTotals EXCEPT !.nodes = 1]

TypeTotals(type) ==
    [ZeroTotals EXCEPT
        !.nodes = IF type = "machine" THEN 1 ELSE 0,
        !.sops = IF type = "sop" THEN 1 ELSE 0,
        !.tools = IF type = "tool" THEN 1 ELSE 0,
        !.skills = IF type = "skill" THEN 1 ELSE 0,
        !.notes = IF type = "note" THEN 1 ELSE 0]

RECURSIVE countRecursive(_, _), countEach(_, _, _)

\* a loop that leaves the children out of the totals
countEach_skipsChildren(d, children, totals) == totals

countEach(d, children, totals) ==
    IF children = <<>> THEN totals
    ELSE LET child == Head(children)
             t1 == AddTotals(totals, TypeTotals(child.type))
             t2 == AddTotals(t1, countRecursive(d, child.id))
         IN  countEach(d, Tail(children), t2)

countRecursive(d, nodeId) ==
    LET children == ToArray(WhereParent(d.nodes, nodeId))
        edgeCount == Cardinality(WhereParent(d.edges, nodeId))
        probCount == Cardinality(WhereMachineNode(d.problems, nodeId))
    IN  countEach(d, children,
                  [ZeroTotals EXCEPT !.problems = probCount, !.edges = edgeCount])

\* the nodes countRecursive is called for, in the order of the calls
RECURSIVE countVisits(_, _), countVisitsEach(_, _)

countVisitsEach(d, children) ==
    IF children = <<>> THEN <<>>
    ELSE countVisits(d, Head(children).id) \o countVisitsEach(d, Tail(children))

countVisits(d, nodeId) ==
    <<nodeId>> \o countVisitsEach(d, ToArray(WhereParent(d.nodes, nodeId)))

----------------------------------------------------------------------------
(* Whiteboard handleDeleteNode: the store calls, in order.  k is the uuid   *)
(* of the node-deleted event.                                              *)

deleteNodeRows(d, nodeId, k) ==
    LET children == WhereParent(d.nodes, nodeId)
        d1 == [d EXCEPT !.nodes = {n \in @ : n.id \notin Ids(children)}]
        d2 == [d1 EXCEPT !.edges = {e \in @ : ~(e.source = nodeId \/ e.target = nodeId)}]
        d3 == [d2 EXCEPT !.problems = {p \in @ : p.machineNodeId # nodeId}]
        d4 == [d3 EXCEPT !.victoryConditions = {v \in @ : v.machineNodeId # nodeId}]
        d5 == [d4 EXCEPT !.nodes = {n \in @ : n.id # nodeId}]
    IN  [d5 EXCEPT !.events = @ \cup {EventRow(uuid(k), nodeId, "node-deleted", "", "")}]

----------------------------------------------------------------------------
(* Subtree duplication: Dashboard duplicateMachine / cloneRecursive.       *)
(* st = [d: the store, idMap: old id -> new id as pairs, next: uuid count] *)

\* idMap.set(k, v)
MapSet(idMap, k, v) == {p \in idMap : p[1] # k} \cup {<<k, v>>}

\* idMap.get(x) || x
MapGetOr(idMap, x) ==
    IF \E p \in idMap : p[1] = x
    THEN (CHOOSE p \in idMap : p[1] = x)[2]
    ELSE x

\* steps copied with their done flags
cloneSteps_keepsDone(steps, k) ==
    [i \in 1..Len(steps) |-> [steps[i] EXCEPT !.id = uuid(k + i - 1)]]

\* node.steps.map(s => ({ ...s, id: uuid(), done: false })), uuids from k on
cloneSteps(steps, k) ==
    [i \in 1..Len(steps) |-> [steps[i] EXCEPT !.id = uuid(k + i - 1), !.done = FALSE]]

\* a label that gets the suffix at every level
cloneLabel_everyLevel(label, newParentId) == label \o <<" (Copy)">>

\* label: newParentId === '' ? `${node.label} (Copy)` : node.label
cloneLabel(label, newParentId) ==
    IF newParentId = NoId THEN label \o <<" (Copy)">> ELSE label

\* a clone row that keeps the parentId of its original
cloneNode_keepsParent(node, newId, newParentId, k, at) ==
    [node EXCEPT
        !.id = newId,
        !.label = cloneLabel(node.label, newParentId),
        !.updatedAt = at,
        !.steps = cloneSteps(node.steps, k)]

\* the clone row of node: fresh id newId, step uuids from k on
cloneNode(node, newId, newParentId, k, at) ==
    [node EXCEPT
        !.id = newId,
        !.parentId = newParentId,
        !.label = cloneLabel(node.label, newParentId),
        !.updatedAt = at,
        !.steps = cloneSteps(node.steps, k)]

\* the clone row of an edge owned by the node cloned as newId
cloneEdge(edge, id, newId, idMap) ==
    [edge EXCEPT
        !.id = id,
        !.parentId = newId,
        !.source = MapGetOr(idMap, edge.source),
        !.target = MapGetOr(idMap, edge.target)]

RECURSIVE cloneEdges(_, _, _)
cloneEdges(st, edges, newId) ==
    IF edges = <<>> THEN st
    ELSE cloneEdges(
            [st EXCEPT
                !.d.edges = @ \cup {cloneEdge(Head(edges), uuid(st.next), newId, st.idMap)},
                !.next = @ + 1],
            Tail(edges), newId)

RECURSIVE cloneVCs(_, _, _)

\* a loop that copies no victory condition
cloneVCs_none(st, vcs, newId) == st

cloneVCs(st, vcs, newId) ==
    IF vcs = <<>> THEN st
    ELSE cloneVCs(
            [st EXCEPT
                !.d.victoryConditions =
                    @ \cup {[Head(vcs) EXCEPT !.id = uuid(st.next), !.machineNodeId = newId]},
                !.next = @ + 1],
            Tail(vcs), newId)

RECURSIVE cloneRecursive(_, _, _, _), cloneEach(_, _, _, _)

cloneEach(st, children, newId, at) ==
    IF children = <<>> THEN st
    ELSE cloneEach(cloneRecursive(st, Head(children).id, newId, at),
                   Tail(children), newId, at)

cloneRecursive(st, nodeId, newParentId, at) ==
    IF Get(st.d.nodes, nodeId) = {} THEN st
    ELSE
    LET node == CHOOSE n \in st.d.nodes : n.id = nodeId
        newId == uuid(st.next)
        clone == cloneNode(node, newId, newParentId, st.next + 1, at)
        st1 == [st EXCEPT
                    !.idMap = MapSet(@, nodeId, newId),
                    !.d.nodes = @ \cup {clone},
                    !.next = @ + 1 + Len(node.steps)]
        st2 == cloneEach(st1, ToArray(WhereParent(st1.d.nodes, nodeId)), newId, at)
        st3 == cloneEdges(st2, ToArray(WhereParent(st2.d.edges, nodeId)), newId)
    IN  cloneVCs(st3, ToArray(WhereMachineNode(st3.d.victoryConditions, nodeId)), newId)

----------------------------------------------------------------------------
(* Root resolution.  Each walk returns what the code computes and, as      *)
(* steps, the number of node lookups it made.                              *)

\* useDashboardScan: findRootMachine over the prefetched nodeMap
RECURSIVE findRootClimb(_, _, _)
findRootClimb(allNodes, n, steps) ==
    IF n.parentId = NoId THEN [id |-> n.id, steps |-> steps]
    ELSE LET parent == Get(allNodes, n.parentId)
         IN  IF parent = {} THEN [id |-> n.id, steps |-> steps + 1]
             ELSE findRootClimb(allNodes, CHOOSE q \in parent : TRUE, steps + 1)

findRootMachine(allNodes, nodeId) ==
    LET n == Get(allNodes, nodeId)
    IN  IF n = {} THEN [id |-> nodeId, steps |-> 1]
        ELSE findRootClimb(allNodes, CHOOSE q \in n : TRUE, 1)

\* Dashboard search: "Find root machine id"; walk is a set, {} for undefined
RECURSIVE searchRootWalk(_, _, _, _)
searchRootWalk(allNodes, walk, rootId, steps) ==
    IF walk = {} THEN [id |-> rootId, steps |-> steps]
    ELSE LET w == CHOOSE q \in walk : TRUE
         IN  IF w.parentId = NoId THEN [id |-> rootId, steps |-> steps]
             ELSE searchRootWalk(allNodes, Get(allNodes, w.parentId),
                                 w.parentId, steps + 1)

\* Dashboard search: "Build path for each result" (labels, root first)
RECURSIVE searchPath(_, _, _)
searchPath(allNodes, current, path) ==
    IF current = {} THEN path
    ELSE LET c == CHOOSE q \in current : TRUE
         IN  searchPath(allNodes, Get(allNodes, c.parentId), <<c.label>> \o path)

\* One SearchResult
searchResult(allNodes, node) ==
    LET r == searchRootWalk(allNodes, {node}, node.id, 0)
    IN  [node |-> node.id, path |-> searchPath(allNodes, {node}, <<>>),
         rootMachineId |-> r.id, steps |-> r.steps]

\* Whiteboard breadcrumbs: build(); the trail holds ids, root first
RECURSIVE breadcrumbWalk(_, _, _, _, _)
breadcrumbWalk(nodes, cid, visited, trail, steps) ==
    IF cid = NoId \/ cid \in visited THEN [trail |-> trail, steps |-> steps]
    ELSE LET node == Get(nodes, cid)
         IN  IF node = {} THEN [trail |-> trail, steps |-> steps + 1]
             ELSE LET n == CHOOSE q \in node : TRUE
                  IN  breadcrumbWalk(nodes, n.parentId, visited \cup {cid},
                                     <<n.id>> \o trail, steps + 1)

\* the trail with the 'Machines' segment (id null) in front when not empty
buildBreadcrumbs(nodes, parentId) ==
    LET b == breadcrumbWalk(nodes, parentId, {}, <<>>, 0)
    IN  [trail |-> IF Len(b.trail) > 0 THEN <<NoId>> \o b.trail ELSE b.trail,
         steps |-> b.steps]

----------------------------------------------------------------------------
(* Backup documents handed to Import.  Import validates nothing but the    *)
(* presence of nodes and edges, so a document may hold edges that cross    *)
(* scope levels.                                                           *)

\* A root with a three-level chain below it, one edge, a problem and a
\* victory condition on inner nodes.
DocChain ==
    [present |-> {"nodes", "edges", "problems", "victoryConditions"},
     nodes |-> {NodeRow(1, NoId, "machine", <<"Sales">>, "running", <<>>, 0),
                NodeRow(2, 1, "machine", <<"Leads">>, "not-built", <<>>, 0),
                NodeRow(3, 2, "machine", <<"Ads">>, "not-built", <<>>, 0),
                NodeRow(4, 3, "note", <<"Memo">>, "not-built", <<>>, 0),
                NodeRow(5, 2, "tool", <<"CRM">>, "not-built", <<>>, 0)},
     edges |-> {EdgeRow(6, 2, 3, 5)},
     problems |-> {ProblemRow(7, 3, "open", 0)},
     victoryConditions |-> {VCRow(8, 3, FALSE)},
     statusChanges |-> {}, events |-> {}, captures |-> {}]

\* Two roots; below the first a machine and a procedure with two steps, the
\* first one done.  Edge 6 joins the two children at their own level; edge 7 is owned
\* by child 2 and points at its sibling 3; edge 8 points at the other root.
DocEdges ==
    [present |-> {"nodes", "edges", "victoryConditions"},
     nodes |-> {NodeRow(1, NoId, "machine", <<"Ops">>, "running", <<>>, 0),
                NodeRow(2, 1, "machine", <<"Intake">>, "not-built", <<>>, 0),
                NodeRow(3, 1, "sop", <<"Checklist">>, "not-built",
                        <<[id |-> 9, text |-> "call", done |-> TRUE],
                          [id |-> 10, text |-> "mail", done |-> FALSE]>>, 0),
                NodeRow(4, NoId, "machine", <<"Finance">>, "not-built", <<>>, 0)},
     edges |-> {EdgeRow(6, 1, 2, 3), EdgeRow(7, 2, 2, 3), EdgeRow(8, 1, 2, 4)},
     problems |-> {},
     victoryConditions |-> {VCRow(5, 2, FALSE)},
     statusChanges |-> {}, events |-> {}, captures |-> {}]

\* A file that is no backup: it has no edges array.
DocInvalid ==
    [present |-> {"nodes"},
     nodes |-> {NodeRow(1, NoId, "machine", <<"Draft">>, "not-built", <<>>, 0)},
     edges |-> {}, problems |-> {}, victoryConditions |-> {},
     statusChanges |-> {}, events |-> {}, captures |-> {}]

Docs == {DocChain, DocEdges, DocInvalid}

----------------------------------------------------------------------------
(* Component state *)

SearchLimit == 50

\* The status filters the search panel is exercised with.
SearchFilters == {"not-built"}

\* Dashboard search effect: results for the nodes passing the status filter
searchEffect(d) ==
    IF ~d.showSearch THEN d
    ELSE LET filtered == ToArray({n \in d.allNodes : n.statusId = d.statusFilter})
             results == [i \in 1..Len(filtered) |-> searchResult(d.allNodes, filtered[i])]
         IN  [d EXCEPT !.searchResults =
                 IF d.statusFilter = "" THEN <<>>
                 ELSE SubSeq(results, 1, IF Len(results) < SearchLimit
                                         THEN Len(results) ELSE SearchLimit)]

DashUnmounted ==
    [machines |-> {}, allNodes |-> {}, deleteTarget |-> NoId,
     deleteSummary |-> ZeroTotals, showSearch |-> FALSE, statusFilter |-> "",
     searchResults |-> <<>>]

\* Dashboard mount effect: root nodes and every node, read from the store
DashboardMount(d) ==
    [DashUnmounted EXCEPT !.machines = WhereParent(d.nodes, NoId), !.allNodes = d.nodes]

WbUnmounted ==
    [parentId |-> NoId, dbNodes |-> {}, flowNodes |-> {}, flowEdges |-> {},
     selectedNodeId |-> NoId, breadcrumbs |-> <<>>]

\* toFlowEdge: the fields the canvas keeps of an edge row
toFlowEdge(e) == [id |-> e.id, source |-> e.source, target |-> e.target]

\* Whiteboard "Load data" and "Breadcrumbs" effects for canvas parentId
WhiteboardLoad(w, d, parentId) ==
    [w EXCEPT
        !.parentId = parentId,
        !.dbNodes = WhereParent(d.nodes, parentId),
        !.flowNodes = Ids(WhereParent(d.nodes, parentId)),
        !.flowEdges = {toFlowEdge(e) : e \in WhereParent(d.edges, parentId)},
        !.breadcrumbs = buildBreadcrumbs(d.nodes, parentId).trail]

NoOp == [op |-> "none", id |-> NoId, pre |-> EmptyDb, idMap |-> {}]

Did(op, id, pre, idMap) == [op |-> op, id |-> id, pre |-> pre, idMap |-> idMap]

ScanIdle ==
    [phase |-> "idle", snapshot |-> EmptyDb, candidates |-> <<>>,
     results |-> <<>>, items |-> <<>>]

\* a React Flow node as the hook sees it, and the { nodes, edges } it stacks
FlowNode(id, x, y, label) == [id |-> id, x |-> x, y |-> y, label |-> label]

FlowState(nodes, edges) == [nodes |-> nodes, edges |-> edges]

\* useUndoRedo after its first render over a canvas of two nodes: the flow
\* state it is given, its two stacks, its two refs and the pending timeouts
HookIdle ==
    [flowNodes |-> <<FlowNode(1, 0, 0, "A"), FlowNode(2, 1, 0, "B")>>,
     flowEdges |-> <<>>,
     past |-> <<>>, future |-> <<>>,
     isUndoRedo |-> FALSE, lastSaved |-> {}, timers |-> 0]

\* the last history calls: a takeSnapshot outside a replay with the state it
\* was called in, and an undo with the state and stacks it was called in
TrackIdle ==
    [c9 |-> "none", s |-> FlowState(<<>>, <<>>),
     c10 |-> "none", pre |-> [flow |-> FlowState(<<>>, <<>>), past |-> <<>>, future |-> <<>>]]

----------------------------------------------------------------------------
(* Dashboard handlers *)

OnDashboard == page = "dashboard"

\* the last dry run: its target, the store it read and the summary it gave
DryRun(id, d, summary) == [target |-> id, dry |-> d, summary |-> summary]

\* what a handler of the two pages leaves alone; the record of a dry run is
\* dropped by every handler but the dry run and the delete it is made for
Rest == UNCHANGED <<now, scan, hook>> /\ track' = TrackIdle

\* a handler that writes to the store counts against the budget of the model
Wrote == ops' = ops + 1
Read == ops' = ops

\* handleCreate: a new root machine
handleCreate ==
    /\ OnDashboard
    /\ ops < MaxOps
    /\ LET machine == NodeRow(uuid(nextId), NoId, "machine", <<"New Machine">>,
                              "not-built", <<>>, now)
       IN  /\ db' = [db EXCEPT !.nodes = @ \cup {machine}]
           /\ dash' = searchEffect([dash EXCEPT !.machines = @ \cup {machine},
                                                !.allNodes = @ \cup {machine}])
    /\ nextId' = nextId + 1
    /\ last' = NoOp
    /\ UNCHANGED <<page, wb>>
    /\ Wrote
    /\ Rest

\* prepareDelete: the dry run, then the confirmation modal opens
prepareDelete(machine) ==
    /\ OnDashboard
    /\ machine \in dash.machines
    /\ LET summary == countRecursive(db, machine.id)
       IN  /\ dash' = [dash EXCEPT !.deleteTarget = machine.id,
                                   !.deleteSummary = [summary EXCEPT !.nodes = @ + 1]]
           /\ track' = DryRun(machine.id, db, [summary EXCEPT !.nodes = @ + 1])
    /\ last' = Did("prepareDelete", machine.id, db, {})
    /\ UNCHANGED <<db, nextId, page, wb, now, scan, hook>>
    /\ Read

\* the modal's onCancel
cancelDelete ==
    /\ OnDashboard
    /\ dash.deleteTarget # NoId
    /\ dash' = [dash EXCEPT !.deleteTarget = NoId, !.deleteSummary = ZeroTotals]
    /\ last' = NoOp
    /\ UNCHANGED <<db, nextId, page, wb>>
    /\ Read
    /\ Rest

\* confirmDelete: deleteRecursive on the target, then the in-memory lists
confirmDelete ==
    /\ OnDashboard
    /\ dash.deleteTarget # NoId
    /\ ops < MaxOps
    /\ LET id == dash.deleteTarget
       IN  /\ db' = deleteRecursive(db, id)
           /\ dash' = searchEffect(
                  [dash EXCEPT
                      !.machines = {m \in @ : m.id # id},
                      !.allNodes = {n \in @ : n.id # id /\ n.parentId # id},
                      !.deleteTarget = NoId,
                      !.deleteSummary = ZeroTotals])
           /\ last' = Did("confirmDelete", id, db, {})
    /\ UNCHANGED <<nextId, page, wb>>
    /\ Wrote
    /\ UNCHANGED <<now, scan, hook, track>>

\* duplicateMachine: cloneRecursive(machine.id, ''), then both lists re-read
duplicateMachine(machine) ==
    /\ OnDashboard
    /\ machine \in dash.machines
    /\ LET st == cloneRecursive([d |-> db, idMap |-> {}, next |-> nextId],
                                machine.id, NoId, now)
       IN  /\ ops < MaxOps
           /\ db' = st.d
           /\ nextId' = st.next
           /\ dash' = searchEffect([dash EXCEPT
                          !.machines = WhereParent(st.d.nodes, NoId),
                          !.allNodes = st.d.nodes])
           /\ last' = Did("duplicateMachine", machine.id, db, st.idMap)
    /\ UNCHANGED <<page, wb>>
    /\ Wrote
    /\ Rest

\* if (data.<table>?.length) await db.<table>.bulkAdd(data.<table>)
DocRows(data, table, rows) == IF table \in data.present THEN rows ELSE {}

\* handleImport: reject a file without nodes or edges; else clear every
\* table, bulk-insert the file's arrays, reload the page
handleImport(data) ==
    /\ OnDashboard
    /\ IF ~({"nodes", "edges"} \subseteq data.present)
       THEN /\ Read
            /\ UNCHANGED <<db, dash>>
       ELSE /\ ops < MaxOps
            /\ Wrote
            /\ db' = [nodes |-> data.nodes,
                      edges |-> data.edges,
                      problems |-> DocRows(data, "problems", data.problems),
                      victoryConditions |->
                          DocRows(data, "victoryConditions", data.victoryConditions),
                      statusChanges |-> DocRows(data, "statusChanges", data.statusChanges),
                      captures |-> DocRows(data, "captures", data.captures),
                      events |-> DocRows(data, "events", data.events)]
            /\ dash' = DashboardMount(db')
    /\ last' = NoOp
    /\ UNCHANGED <<nextId, page, wb>>
    /\ Rest

\* the search panel opens with a status filter chosen
openSearch(filter) ==
    /\ OnDashboard
    /\ ~dash.showSearch
    /\ dash' = searchEffect([dash EXCEPT !.showSearch = TRUE, !.statusFilter = filter])
    /\ last' = NoOp
    /\ UNCHANGED <<db, nextId, page, wb>>
    /\ Read
    /\ Rest

\* handleSearchSelect: close the panel and navigate to the result's canvas
handleSearchSelect(i) ==
    /\ OnDashboard
    /\ dash.showSearch
    /\ i \in 1..Len(dash.searchResults)
    /\ LET r == dash.searchResults[i]
           node == CHOOSE n \in dash.allNodes : n.id = r.node
           parentId == IF node.parentId = NoId THEN node.id ELSE node.parentId
       IN  wb' = WhiteboardLoad(WbUnmounted, db, parentId)
    /\ page' = "whiteboard"
    /\ dash' = DashUnmounted
    /\ last' = NoOp
    /\ UNCHANGED <<db, nextId>>
    /\ Read
    /\ Rest

\* a click on a machine card: navigate(`/machine/${machine.id}`)
openMachine(machine) ==
    /\ OnDashboard
    /\ machine \in dash.machines
    /\ wb' = WhiteboardLoad(WbUnmounted, db, machine.id)
    /\ page' = "whiteboard"
    /\ dash' = DashUnmounted
    /\ last' = NoOp
    /\ UNCHANGED <<db, nextId>>
    /\ Read
    /\ Rest

----------------------------------------------------------------------------
(* Whiteboard handlers *)

OnWhiteboard == page = "whiteboard"

\* nodeCallbacks.onDrillDown: the canvas of a machine node is opened; the
\* selection is kept
onDrillDown(nodeId) ==
    /\ OnWhiteboard
    /\ \E n \in wb.dbNodes : n.id = nodeId /\ n.type = "machine"
    /\ nodeId \in wb.flowNodes
    /\ wb' = WhiteboardLoad(wb, db, nodeId)
    /\ last' = NoOp
    /\ UNCHANGED <<db, nextId, page, dash>>
    /\ Read
    /\ Rest

\* handleBreadcrumbClick on a segment before the last one (the back button
\* takes the same two routes)
handleBreadcrumbClick(i) ==
    /\ OnWhiteboard
    /\ i \in 1..(Len(wb.breadcrumbs) - 1)
    /\ IF wb.breadcrumbs[i] = NoId
       THEN /\ page' = "dashboard"
            /\ dash' = DashboardMount(db)
            /\ wb' = WbUnmounted
       ELSE /\ wb' = WhiteboardLoad(wb, db, wb.breadcrumbs[i])
            /\ UNCHANGED <<page, dash>>
    /\ last' = NoOp
    /\ UNCHANGED <<db, nextId>>
    /\ Read
    /\ Rest

\* the back button on a canvas without a trail: navigate('/')
backToDashboard ==
    /\ OnWhiteboard
    /\ Len(wb.breadcrumbs) <= 2
    /\ page' = "dashboard"
    /\ dash' = DashboardMount(db)
    /\ wb' = WbUnmounted
    /\ last' = NoOp
    /\ UNCHANGED <<db, nextId>>
    /\ Read
    /\ Rest

onNodeClick(nodeId) ==
    /\ OnWhiteboard
    /\ nodeId \in wb.flowNodes
    /\ wb.selectedNodeId # nodeId
    /\ wb' = [wb EXCEPT !.selectedNodeId = nodeId]
    /\ last' = NoOp
    /\ UNCHANGED <<db, nextId, page, dash>>
    /\ Read
    /\ Rest

onPaneClick ==
    /\ OnWhiteboard
    /\ wb.selectedNodeId # NoId
    /\ wb' = [wb EXCEPT !.selectedNodeId = NoId]
    /\ last' = NoOp
    /\ UNCHANGED <<db, nextId, page, dash>>
    /\ Read
    /\ Rest

\* handleAddNode: a node of the type and its node-created event
handleAddNode(type) ==
    /\ OnWhiteboard
    /\ wb.parentId # NoId
    /\ ops < MaxOps
    /\ LET newNode == NodeRow(uuid(nextId), wb.parentId, type, <<"New", type>>,
                              "not-built", <<>>, now)
       IN  /\ db' = [db EXCEPT
                        !.nodes = @ \cup {newNode},
                        !.events = @ \cup {EventRow(uuid(nextId + 1), newNode.id,
                                                    "node-created", "", "")}]
           /\ wb' = [wb EXCEPT !.dbNodes = @ \cup {newNode},
                               !.flowNodes = @ \cup {newNode.id},
                               !.selectedNodeId = newNode.id]
    /\ nextId' = nextId + 2
    /\ last' = NoOp
    /\ UNCHANGED <<page, dash>>
    /\ Wrote
    /\ Rest

\* onConnect: an edge between two nodes of the canvas, owned by the canvas
onConnect(source, target) ==
    /\ OnWhiteboard
    /\ wb.parentId # NoId
    /\ source \in wb.flowNodes /\ target \in wb.flowNodes
    /\ source # target
    /\ ops < MaxOps
    /\ LET e == EdgeRow(uuid(nextId), wb.parentId, source, target)
       IN  /\ db' = [db EXCEPT !.edges = @ \cup {e}]
           /\ wb' = [wb EXCEPT !.flowEdges = @ \cup {toFlowEdge(e)}]
    /\ nextId' = nextId + 1
    /\ last' = NoOp
    /\ UNCHANGED <<page, dash>>
    /\ Wrote
    /\ Rest

\* The store writes of handleUpdateNode(id, updates), uuids from k on.
\* updates = [statusId: a status or "" when absent, notes: whether present].
\* Returns the store and the number of uuids used.
updateNodeRows(d, dbNodes, id, updates, k, at) ==
    LET current == Get(dbNodes, id)
        logs == /\ updates.statusId # ""
                /\ current # {}
                /\ (CHOOSE c \in current : TRUE).statusId # updates.statusId
        from == (CHOOSE c \in current : TRUE).statusId
        d1 == IF logs
              THEN [d EXCEPT
                      !.statusChanges = @ \cup
                          {StatusChangeRow(uuid(k), id, from, updates.statusId, at)},
                      !.events = @ \cup
                          {EventRow(uuid(k + 1), id, "status-change", from,
                                    updates.statusId)}]
              ELSE d
        k1 == IF logs THEN k + 2 ELSE k
        d2 == IF updates.notes
              THEN [d1 EXCEPT !.events = @ \cup
                          {EventRow(uuid(k1), id, "note-updated", "", "")}]
              ELSE d1
        k2 == IF updates.notes THEN k1 + 1 ELSE k1
        \* db.nodes.update(id, { ...updates, updatedAt: new Date() })
        d3 == [d2 EXCEPT !.nodes =
                  {IF n.id = id
                   THEN [n EXCEPT !.statusId = IF updates.statusId # ""
                                               THEN updates.statusId ELSE @,
                                  !.updatedAt = at]
                   ELSE n : n \in @}]
    IN  [d |-> d3, next |-> k2]

\* setDbNodes(prev => prev.map(n => n.id === id ? { ...n, ...updates } : n))
updateDbNodes(dbNodes, id, updates) ==
    {IF n.id = id /\ updates.statusId # ""
     THEN [n EXCEPT !.statusId = updates.statusId] ELSE n : n \in dbNodes}

UpdateInputs ==
    [statusId : PickStatuses, notes : {FALSE}] \cup {[statusId |-> "", notes |-> TRUE]}

\* handleUpdateNode(id, updates)
updateNode(id, updates) ==
    LET r == updateNodeRows(db, wb.dbNodes, id, updates, nextId, now)
    IN  /\ ops < MaxOps
        /\ db' = r.d
        /\ nextId' = r.next
        /\ wb' = [wb EXCEPT !.dbNodes = updateDbNodes(@, id, updates)]
        /\ last' = Did("handleUpdateNode", id, db, {})
        /\ UNCHANGED <<page, dash>>
        /\ Wrote
        /\ Rest

\* the side panel of the selected node: a status button or a saved note
handleUpdateNode(updates) ==
    /\ OnWhiteboard
    /\ Get(wb.dbNodes, wb.selectedNodeId) # {}
    /\ updateNode(wb.selectedNodeId, updates)

\* handleShortcutStatus: Cmd+J then a status key, on the selected node id
handleShortcutStatus(statusId) ==
    /\ OnWhiteboard
    /\ wb.selectedNodeId # NoId
    /\ updateNode(wb.selectedNodeId, [statusId |-> statusId, notes |-> FALSE])

\* handleAddProblem on the selected node: a problem and its event
handleAddProblem ==
    /\ OnWhiteboard
    /\ Get(wb.dbNodes, wb.selectedNodeId) # {}
    /\ ops < MaxOps
    /\ db' = [db EXCEPT
                !.problems = @ \cup {ProblemRow(uuid(nextId), wb.selectedNodeId, "open", now)},
                !.events = @ \cup {EventRow(uuid(nextId + 1), wb.selectedNodeId,
                                            "problem-logged", "", "")}]
    /\ nextId' = nextId + 2
    /\ last' = NoOp
    /\ UNCHANGED <<page, dash, wb>>
    /\ Wrote
    /\ Rest

\* handleAddVC on the selected node
handleAddVC ==
    /\ OnWhiteboard
    /\ Get(wb.dbNodes, wb.selectedNodeId) # {}
    /\ ops < MaxOps
    /\ db' = [db EXCEPT !.victoryConditions =
                @ \cup {VCRow(uuid(nextId), wb.selectedNodeId, FALSE)}]
    /\ nextId' = nextId + 1
    /\ last' = NoOp
    /\ UNCHANGED <<page, dash, wb>>
    /\ Wrote
    /\ Rest

\* handleDeleteNode from the context menu of a node of the canvas
handleDeleteNode(nodeId) ==
    /\ OnWhiteboard
    /\ nodeId \in wb.flowNodes
    /\ ops < MaxOps
    /\ db' = deleteNodeRows(db, nodeId, nextId)
    /\ nextId' = nextId + 1
    /\ wb' = [wb EXCEPT
                !.dbNodes = {n \in @ : n.id # nodeId},
                !.flowNodes = @ \ {nodeId},
                !.flowEdges = {e \in @ : e.source # nodeId /\ e.target # nodeId},
                !.selectedNodeId = IF @ = nodeId THEN NoId ELSE @]
    /\ last' = Did("handleDeleteNode", nodeId, db, {})
    /\ UNCHANGED <<page, dash>>
    /\ Wrote
    /\ Rest

----------------------------------------------------------------------------
(* The application: the store with the dashboard and the whiteboard *)

Init ==
    /\ db = EmptyDb
    /\ nextId = 0
    /\ ops = 0
    /\ now = 0
    /\ page = "dashboard"
    /\ dash = DashboardMount(EmptyDb)
    /\ wb = WbUnmounted
    /\ last = NoOp
    /\ scan = ScanIdle
    /\ hook = HookIdle
    /\ track = TrackIdle

Next ==
    \/ handleCreate
    \/ \E m \in dash.machines : prepareDelete(m)
    \/ cancelDelete
    \/ confirmDelete
    \/ \E m \in dash.machines : duplicateMachine(m)
    \/ \E data \in Docs : handleImport(data)
    \/ \E f \in SearchFilters : openSearch(f)
    \/ \E i \in 1..Len(dash.searchResults) : handleSearchSelect(i)
    \/ \E m \in dash.machines : openMachine(m)
    \/ \E n \in wb.flowNodes : onDrillDown(n)
    \/ \E i \in 1..Len(wb.breadcrumbs) : handleBreadcrumbClick(i)
    \/ backToDashboard
    \/ \E n \in wb.flowNodes : onNodeClick(n)
    \/ onPaneClick
    \/ \E t \in AddTypes : handleAddNode(t)
    \/ \E s, t \in wb.flowNodes : onConnect(s, t)
    \/ \E u \in UpdateInputs : handleUpdateNode(u)
    \/ \E s \in PickStatuses : handleShortcutStatus(s)
    \/ handleAddProblem
    \/ handleAddVC
    \/ \E n \in wb.flowNodes : handleDeleteNode(n)

Spec == Init /\ [][Next]_vars

----------------------------------------------------------------------------
(* The attention scanner: useDashboardScan / runScan *)

\* Math.floor((Date.now() - date) / one day), the clock read being clock
daysSince(clock, date) == (clock - date) \div TicksPerDay

ATTENTION_THRESHOLDS ==
    [problem   |-> [amber |-> 3, red |-> 7,  critical |-> 14],
     staleness |-> [amber |-> 7, red |-> 14, critical |-> 21],
     capture   |-> [amber |-> 1, red |-> 2,  critical |-> 3],
     blocked   |-> [amber |-> 3, red |-> 7,  critical |-> 14]]

\* a classification that needs an age beyond the cutoff, not at it
getSeverity_beyondCutoff(days, thresholds) ==
    IF days > thresholds.critical THEN "critical"
    ELSE IF days > thresholds.red THEN "red"
    ELSE IF days > thresholds.amber THEN "amber"
    ELSE "normal"

getSeverity(days, thresholds) ==
    IF days >= thresholds.critical THEN "critical"
    ELSE IF days >= thresholds.red THEN "red"
    ELSE IF days >= thresholds.amber THEN "amber"
    ELSE "normal"

AttentionItem(id, type, nodeId, machineId, severity, ageDays) ==
    [id |-> id, type |-> type, nodeId |-> nodeId, machineId |-> machineId,
     severity |-> severity, ageDays |-> ageDays]

\* one pass of a detector loop: the item it builds, the thresholds it
\* classified the age with, and whether it reached results.push
Candidate(item, profile, pushed) ==
    [item |-> item, profile |-> profile, pushed |-> pushed]

\* 1. Stale problems
staleProblems(s, clock) ==
    LET openProblems == SelectSeq(ToArray(s.problems), LAMBDA p : p.status # "resolved")
    IN  [i \in 1..Len(openProblems) |->
            LET p == openProblems[i]
                age == daysSince(clock, p.createdAt)
                severity == getSeverity(age, ATTENTION_THRESHOLDS.problem)
                machineId == findRootMachine(s.nodes, p.machineNodeId).id
            IN  Candidate(
                    AttentionItem(<<"prob", p.id>>, "stale-problem",
                                  p.machineNodeId, machineId, severity, age),
                    "problem", severity # "normal")]

\* the changedAt of the earliest change to blocked
lastBlocked_earliest(statusChanges, nodeId) ==
    LET toBlocked == {sc \in statusChanges :
                         sc.machineNodeId = nodeId /\ sc.toStatusId = "blocked"}
    IN  {sc.changedAt : sc \in {x \in toBlocked :
                                   \A y \in toBlocked : x.changedAt <= y.changedAt}}

\* the changedAt of allStatusChanges.filter(to blocked).sort(latest first)[0]
lastBlocked(statusChanges, nodeId) ==
    LET toBlocked == {sc \in statusChanges :
                         sc.machineNodeId = nodeId /\ sc.toStatusId = "blocked"}
    IN  {sc.changedAt : sc \in {x \in toBlocked :
                                   \A y \in toBlocked : y.changedAt <= x.changedAt}}

\* a detector that reads the status changes from the store once more
blockedMachines_readsStore(s, clock) ==
    LET blockedNodes == SelectSeq(ToArray(s.nodes), LAMBDA n : n.statusId = "blocked")
    IN  [i \in 1..Len(blockedNodes) |->
            LET node == blockedNodes[i]
                lb == lastBlocked(db.statusChanges, node.id)
                age == IF lb # {} THEN daysSince(clock, CHOOSE t \in lb : TRUE)
                       ELSE daysSince(clock, node.updatedAt)
                severity == getSeverity(age, ATTENTION_THRESHOLDS.blocked)
                machineId == findRootMachine(s.nodes, node.id).id
            IN  Candidate(
                    AttentionItem(<<"blocked", node.id>>, "blocked-machine",
                                  node.id, machineId, severity, age),
                    "blocked", severity # "normal")]

\* 2. Blocked machines
blockedMachines(s, clock) ==
    LET blockedNodes == SelectSeq(ToArray(s.nodes), LAMBDA n : n.statusId = "blocked")
    IN  [i \in 1..Len(blockedNodes) |->
            LET node == blockedNodes[i]
                lb == lastBlocked(s.statusChanges, node.id)
                age == IF lb # {} THEN daysSince(clock, CHOOSE t \in lb : TRUE)
                       ELSE daysSince(clock, node.updatedAt)
                severity == getSeverity(age, ATTENTION_THRESHOLDS.blocked)
                machineId == findRootMachine(s.nodes, node.id).id
            IN  Candidate(
                    AttentionItem(<<"blocked", node.id>>, "blocked-machine",
                                  node.id, machineId, severity, age),
                    "blocked", severity # "normal")]

\* a detector that takes the met conditions too
unmetVCs_metToo(s, clock) ==
    LET unmet == SelectSeq(ToArray(s.victoryConditions),
                           LAMBDA vc : Get(s.nodes, vc.machineNodeId) # {})
    IN  [i \in 1..Len(unmet) |->
            LET vc == unmet[i]
                node == CHOOSE n \in s.nodes : n.id = vc.machineNodeId
                age == daysSince(clock, node.updatedAt)
                severity == getSeverity(age, ATTENTION_THRESHOLDS.staleness)
                machineId == findRootMachine(s.nodes, vc.machineNodeId).id
            IN  Candidate(
                    AttentionItem(<<"vc", vc.id>>, "unmet-vc",
                                  vc.machineNodeId, machineId, severity, age),
                    "staleness", severity # "normal")]

\* 3. Unmet victory conditions (if (!node) continue comes before the age)
unmetVCs(s, clock) ==
    LET unmet == SelectSeq(ToArray(s.victoryConditions),
                           LAMBDA vc : ~vc.met /\ Get(s.nodes, vc.machineNodeId) # {})
    IN  [i \in 1..Len(unmet) |->
            LET vc == unmet[i]
                node == CHOOSE n \in s.nodes : n.id = vc.machineNodeId
                age == daysSince(clock, node.updatedAt)
                severity == getSeverity(age, ATTENTION_THRESHOLDS.staleness)
                machineId == findRootMachine(s.nodes, vc.machineNodeId).id
            IN  Candidate(
                    AttentionItem(<<"vc", vc.id>>, "unmet-vc",
                                  vc.machineNodeId, machineId, severity, age),
                    "staleness", severity # "normal")]

\* a detector that does not leave the blocked machines out
staleNodes_countsBlocked(s, clock) ==
    LET rootNodes == SelectSeq(ToArray(s.nodes),
                               LAMBDA n : n.parentId = NoId /\ n.type = "machine")
    IN  [i \in 1..Len(rootNodes) |->
            LET node == rootNodes[i]
                age == daysSince(clock, node.updatedAt)
                severity == getSeverity(age, ATTENTION_THRESHOLDS.staleness)
            IN  Candidate(
                    AttentionItem(<<"stale", node.id>>, "stale-node",
                                  node.id, node.id, severity, age),
                    "staleness", severity # "normal")]

\* 4. Stale nodes (blocked machines are not counted twice)
staleNodes(s, clock) ==
    LET rootNodes == SelectSeq(ToArray(s.nodes),
                               LAMBDA n : n.parentId = NoId /\ n.type = "machine")
    IN  [i \in 1..Len(rootNodes) |->
            LET node == rootNodes[i]
                age == daysSince(clock, node.updatedAt)
                severity == getSeverity(age, ATTENTION_THRESHOLDS.staleness)
            IN  Candidate(
                    AttentionItem(<<"stale", node.id>>, "stale-node",
                                  node.id, node.id, severity, age),
                    "staleness", severity # "normal" /\ node.statusId # "blocked")]

\* Math.max(...ages)
MaxOf(S) == CHOOSE m \in S : \A x \in S : x <= m

\* 5. Aging captures: one item for all unprocessed captures
agingCaptures(s, clock) ==
    LET unprocessedCaptures == {c \in s.captures : ~c.processed}
    IN  IF unprocessedCaptures = {} THEN <<>>
        ELSE LET oldestAge == MaxOf({daysSince(clock, c.createdAt) :
                                        c \in unprocessedCaptures})
                 severity == getSeverity(oldestAge, ATTENTION_THRESHOLDS.capture)
             IN  <<Candidate(
                     AttentionItem(<<"captures", NoId>>, "aging-capture",
                                   NoId, NoId, severity, oldestAge),
                     "capture", severity # "normal")>>

severityOrder == [critical |-> 0, red |-> 1, amber |-> 2, normal |-> 3]

\* a comparator that puts the youngest item of a severity first
compareItems_youngestFirst(a, b) ==
    LET so == severityOrder[a.severity] - severityOrder[b.severity]
    IN  IF so # 0 THEN so ELSE a.ageDays - b.ageDays

\* the comparator of results.sort
compareItems(a, b) ==
    LET so == severityOrder[a.severity] - severityOrder[b.severity]
    IN  IF so # 0 THEN so ELSE b.ageDays - a.ageDays

\* Array.prototype.sort is stable: x goes behind everything not after it
RECURSIVE insertItem(_, _)
insertItem(sorted, x) ==
    IF sorted = <<>> THEN <<x>>
    ELSE IF compareItems(Head(sorted), x) <= 0
         THEN <<Head(sorted)>> \o insertItem(Tail(sorted), x)
         ELSE <<x>> \o sorted

RECURSIVE sortItems(_)
sortItems(results) ==
    IF results = <<>> THEN <<>>
    ELSE insertItem(sortItems(SubSeq(results, 1, Len(results) - 1)),
                    results[Len(results)])

\* the five collections of the Promise.all, captures filtered unprocessed
prefetch(d) ==
    [EmptyDb EXCEPT
        !.problems = d.problems,
        !.nodes = d.nodes,
        !.victoryConditions = d.victoryConditions,
        !.captures = {c \in d.captures : ~c.processed},
        !.statusChanges = d.statusChanges]

\* the detectors over the prefetched rows, then the sort
runScan(sc, clock) ==
    LET s == sc.snapshot
        candidates == staleProblems(s, clock) \o blockedMachines(s, clock)
                         \o unmetVCs(s, clock) \o staleNodes(s, clock)
                         \o agingCaptures(s, clock)
        pushed == SelectSeq(candidates, LAMBDA c : c.pushed)
        results == [i \in 1..Len(pushed) |-> pushed[i].item]
    IN  [sc EXCEPT
            !.phase = "done",
            !.candidates = candidates,
            !.results = results,
            !.items = sortItems(results)]

\* the stores the scanner is run on: a root machine 1 with a child machine 2
\* (blocked, twice set to blocked), a second root machine 3, problems on 2
\* and 3 and on a node that is gone, victory conditions, captures
ScanStamps == {0, 8}

ScanStore(tp, tn, tc, rootStatus) ==
    [EmptyDb EXCEPT
        !.nodes = {NodeRow(1, NoId, "machine", <<"Sales">>, rootStatus, <<>>, tn),
                   NodeRow(2, 1, "machine", <<"Leads">>, "blocked", <<>>, 0),
                   NodeRow(3, NoId, "machine", <<"Finance">>, "running", <<>>, 8 - tn)},
        !.problems = {ProblemRow(4, 2, "open", tp),
                      ProblemRow(5, 3, "diagnosing", 8),
                      ProblemRow(6, 3, "resolved", 0),
                      ProblemRow(7, 99, "open", 20)},
        !.victoryConditions = {VCRow(8, 2, FALSE), VCRow(9, 3, TRUE),
                               VCRow(10, 99, FALSE), VCRow(11, 1, FALSE)},
        !.statusChanges = {StatusChangeRow(12, 2, "running", "blocked", 4),
                           StatusChangeRow(13, 2, "blocked", "running", 6),
                           StatusChangeRow(14, 2, "running", "blocked", tp)},
        !.captures = {CaptureRow(15, FALSE, tc), CaptureRow(16, TRUE, 0),
                      CaptureRow(17, FALSE, 40)}]

ScanStores ==
    {ScanStore(tp, tn, tc, st) :
        tp \in ScanStamps, tn \in ScanStamps, tc \in {0, 38}, st \in PickStatuses}

\* the effect of useDashboardScan starts runScan: the five reads
scanFetch ==
    /\ scan.phase = "idle"
    /\ scan' = [scan EXCEPT !.phase = "fetched", !.snapshot = prefetch(db)]
    /\ UNCHANGED <<db, nextId, ops, now, page, dash, wb, last, hook, track>>

\* the reads have resolved: detectors, sort, setItems
scanDetect ==
    /\ scan.phase = "fetched"
    /\ scan' = runScan(scan, now)
    /\ UNCHANGED <<db, nextId, ops, now, page, dash, wb, last, hook, track>>

\* the Dashboard is left and mounted anew: the hook state starts over
scanRemount ==
    /\ scan.phase = "done"
    /\ scan' = ScanIdle
    /\ UNCHANGED <<db, nextId, ops, now, page, dash, wb, last, hook, track>>

\* half a day passes
Tick ==
    /\ now < MaxNow
    /\ now' = now + 1
    /\ UNCHANGED <<db, nextId, ops, page, dash, wb, last, scan, hook, track>>

InitScan ==
    /\ db \in ScanStores
    /\ nextId = 0
    /\ ops = 0
    /\ now = 0
    /\ page = "dashboard"
    /\ dash = DashboardMount(db)
    /\ wb = WbUnmounted
    /\ last = NoOp
    /\ scan = ScanIdle
    /\ hook = HookIdle
    /\ track = TrackIdle

NextScan == scanFetch \/ scanDetect \/ scanRemount \/ Tick

SpecScan == InitScan /\ [][NextScan]_vars

----------------------------------------------------------------------------
(* The history hook: useUndoRedo *)

MAX_HISTORY == 50

\* the key of takeSnapshot: node ids with positions, and the edge ids
fingerprint(flowNodes, flowEdges) ==
    [n |-> [i \in 1..Len(flowNodes) |->
               [id |-> flowNodes[i].id, x |-> flowNodes[i].x, y |-> flowNodes[i].y]],
     e |-> flowEdges]

\* a slice that evicts nothing
sliceLast_keepsAll(seq, n) == seq

\* prev.slice(-n)
sliceLast(seq, n) ==
    IF Len(seq) <= n THEN seq ELSE SubSeq(seq, Len(seq) - n + 1, Len(seq))

\* p.slice(0, -1)
dropLast(seq) == IF seq = <<>> THEN <<>> ELSE SubSeq(seq, 1, Len(seq) - 1)

\* a takeSnapshot that leaves future as it is
takeSnapshot_keepsFuture(h, c) ==
    IF h.isUndoRedo THEN h
    ELSE LET key == fingerprint(c.flowNodes, c.flowEdges)
         IN  IF h.lastSaved = {key} THEN h
             ELSE [h EXCEPT
                     !.lastSaved = {key},
                     !.past = Append(sliceLast(@, MAX_HISTORY - 1),
                                     FlowState(c.flowNodes, c.flowEdges))]

\* The callbacks read flowNodes, flowEdges, past and future of the render c
\* they were made in; refs and state updaters work on the hook state h.
takeSnapshot(h, c) ==
    IF h.isUndoRedo THEN h
    ELSE LET key == fingerprint(c.flowNodes, c.flowEdges)
         IN  IF h.lastSaved = {key} THEN h
             ELSE [h EXCEPT
                     !.lastSaved = {key},
                     !.past = Append(sliceLast(@, MAX_HISTORY - 1),
                                     FlowState(c.flowNodes, c.flowEdges)),
                     !.future = <<>>]

undo(h, c) ==
    IF Len(c.past) = 0 THEN h
    ELSE LET prev == c.past[Len(c.past)]
         IN  [h EXCEPT
                 !.isUndoRedo = TRUE,
                 !.past = dropLast(@),
                 !.future = Append(@, FlowState(c.flowNodes, c.flowEdges)),
                 !.flowNodes = prev.nodes,
                 !.flowEdges = prev.edges,
                 !.timers = @ + 1]

\* a redo that stacks the state it restores, not the one it replaces
redo_stacksRestored(h, c) ==
    IF Len(c.future) = 0 THEN h
    ELSE LET next == c.future[Len(c.future)]
         IN  [h EXCEPT
                 !.isUndoRedo = TRUE,
                 !.future = dropLast(@),
                 !.past = Append(@, next),
                 !.flowNodes = next.nodes,
                 !.flowEdges = next.edges,
                 !.timers = @ + 1]

redo(h, c) ==
    IF Len(c.future) = 0 THEN h
    ELSE LET next == c.future[Len(c.future)]
         IN  [h EXCEPT
                 !.isUndoRedo = TRUE,
                 !.future = dropLast(@),
                 !.past = Append(@, FlowState(c.flowNodes, c.flowEdges)),
                 !.flowNodes = next.nodes,
                 !.flowEdges = next.edges,
                 !.timers = @ + 1]

Flow(h) == FlowState(h.flowNodes, h.flowEdges)

NoReplay(h) == ~h.isUndoRedo /\ h.timers = 0

HistRest == UNCHANGED <<db, nextId, now, page, dash, wb, last, scan>>

HistStep == ops < MaxHistOps /\ ops' = ops + 1

\* an edit of the canvas: it ends a takeSnapshot-undo pair that is over and
\* an undo-redo pair that has begun
Edited ==
    track' = [TrackIdle EXCEPT
                 !.c9 = IF track.c9 = "snap" THEN "snap" ELSE "none",
                 !.s = IF track.c9 = "snap" THEN track.s ELSE TrackIdle.s]

\* the caller drags node i to x
moveNode(i, x) ==
    /\ HistStep
    /\ hook.flowNodes[i].x # x
    /\ hook' = [hook EXCEPT !.flowNodes[i].x = x]
    /\ Edited
    /\ HistRest

\* the caller changes the data of node i: its label
setLabel(i, label) ==
    /\ HistStep
    /\ hook.flowNodes[i].label # label
    /\ hook' = [hook EXCEPT !.flowNodes[i].label = label]
    /\ Edited
    /\ HistRest

\* the caller connects node 1 to node 2 by edge 7, or removes that edge
toggleEdge ==
    /\ HistStep
    /\ hook' = [hook EXCEPT !.flowEdges = IF @ = <<>> THEN <<7>> ELSE <<>>]
    /\ Edited
    /\ HistRest

\* The three calls below come from a render that has seen every earlier
\* update: the closure of the callback is the hook state itself.
callTakeSnapshot ==
    /\ HistStep
    /\ hook' = takeSnapshot(hook, hook)
    /\ track' = IF NoReplay(hook)
                THEN [TrackIdle EXCEPT !.c9 = "snap", !.s = Flow(hook)]
                ELSE TrackIdle
    /\ HistRest

callUndo ==
    /\ HistStep
    /\ hook' = undo(hook, hook)
    /\ track' = [c9 |-> IF track.c9 = "snap" THEN "undone" ELSE "none",
                 s |-> IF track.c9 = "snap" THEN track.s ELSE TrackIdle.s,
                 c10 |-> IF Len(hook.past) > 0 THEN "undo" ELSE "none",
                 pre |-> IF Len(hook.past) > 0
                         THEN [flow |-> Flow(hook), past |-> hook.past,
                               future |-> hook.future]
                         ELSE TrackIdle.pre]
    /\ HistRest

callRedo ==
    /\ HistStep
    /\ hook' = redo(hook, hook)
    /\ track' = IF track.c10 = "undo"
                THEN [TrackIdle EXCEPT !.c10 = "redone", !.pre = track.pre]
                ELSE TrackIdle
    /\ HistRest

\* setTimeout(() => { isUndoRedo.current = false }, 50) of an undo or redo
replayTimeout ==
    /\ hook.timers > 0
    /\ hook' = [hook EXCEPT !.isUndoRedo = FALSE, !.timers = @ - 1]
    /\ UNCHANGED <<db, nextId, ops, now, page, dash, wb, last, scan, track>>

InitHist ==
    /\ db = EmptyDb
    /\ nextId = 0
    /\ ops = 0
    /\ now = 0
    /\ page = "whiteboard"
    /\ dash = DashUnmounted
    /\ wb = WbUnmounted
    /\ last = NoOp
    /\ scan = ScanIdle
    /\ hook = HookIdle
    /\ track = TrackIdle

NextHist ==
    \/ \E x \in {0, 1} : moveNode(1, x)
    \/ \E label \in {"A", "C"} : setLabel(1, label)
    \/ toggleEdge
    \/ callTakeSnapshot
    \/ callUndo
    \/ callRedo
    \/ replayTimeout

SpecHist == InitHist /\ [][NextHist]_vars

----------------------------------------------------------------------------
(* The history hook at capacity: a caller that snapshots before each change *)

\* what the caller has done: the moves made, the states in which it called
\* takeSnapshot outside a replay, the undo and redo calls made
CapIdle == [moves |-> 0, calls |-> <<>>, replays |-> 0]

CapRest == UNCHANGED <<db, nextId, ops, now, page, dash, wb, last, scan>>

\* the caller drags node 1 to a place it has not been at, after a snapshot
\* of the state it leaves
capMove ==
    /\ track.moves < MaxMoves
    /\ hook.lastSaved = {fingerprint(hook.flowNodes, hook.flowEdges)}
    /\ hook' = [hook EXCEPT !.flowNodes[1].x = track.moves + 1]
    /\ track' = [track EXCEPT !.moves = @ + 1]
    /\ CapRest

capTakeSnapshot ==
    /\ hook.lastSaved # {fingerprint(hook.flowNodes, hook.flowEdges)}
    /\ hook' = takeSnapshot(hook, hook)
    /\ track' = IF hook.isUndoRedo THEN track
                ELSE [track EXCEPT !.calls = Append(@, Flow(hook))]
    /\ CapRest

\* the caller undoes and redoes once it has a long history
LongHistory == track.moves >= MAX_HISTORY - 2

capUndo ==
    /\ track.replays < MaxReplays
    /\ LongHistory
    /\ hook' = undo(hook, hook)
    /\ track' = [track EXCEPT !.replays = @ + 1]
    /\ CapRest

capRedo ==
    /\ track.replays < MaxReplays
    /\ LongHistory
    /\ hook' = redo(hook, hook)
    /\ track' = [track EXCEPT !.replays = @ + 1]
    /\ CapRest

InitCap ==
    /\ db = EmptyDb
    /\ nextId = 0
    /\ ops = 0
    /\ now = 0
    /\ page = "whiteboard"
    /\ dash = DashUnmounted
    /\ wb = WbUnmounted
    /\ last = NoOp
    /\ scan = ScanIdle
    /\ hook = HookIdle
    /\ track = CapIdle

NextCap == capMove \/ capTakeSnapshot \/ capUndo \/ capRedo \/ replayTimeout

SpecCap == InitCap /\ [][NextCap]_vars

----------------------------------------------------------------------------
(* The two deletes, one awaited store call at a time: Dashboard            *)
(* confirmDelete / deleteRecursive and Whiteboard handleDeleteNode.  No    *)
(* call is wrapped in a try, so a call that rejects ends the handler.      *)

\* the store after handleImport of a complete document
DocStore(data) ==
    [nodes |-> data.nodes,
     edges |-> data.edges,
     problems |-> DocRows(data, "problems", data.problems),
     victoryConditions |-> DocRows(data, "victoryConditions", data.victoryConditions),
     statusChanges |-> DocRows(data, "statusChanges", data.statusChanges),
     captures |-> DocRows(data, "captures", data.captures),
     events |-> DocRows(data, "events", data.events)]

\* an activation of deleteRecursive, or the body of handleDeleteNode: the
\* node, the children array once read, and the call it is about to make
Frame(nodeId, children, pc) == [nodeId |-> nodeId, children |-> children, pc |-> pc]

\* a handler in flight: its activations, innermost first, the node rows it
\* has deleted, in order, and whether a store call rejected
DelRun(op, target, stack, gone, failed) ==
    [op |-> op, target |-> target, stack |-> stack, gone |-> gone, failed |-> failed]

Running == "stack" \in DOMAIN track /\ track.stack # <<>>

Top == Head(track.stack)

AtCall(op, pc) == Running /\ track.op = op /\ Top.pc = pc

\* the innermost activation moves on to its next call
Advance(pc) == track' = [track EXCEPT !.stack = <<[Top EXCEPT !.pc = pc]>> \o Tail(@)]

DelRest == UNCHANGED <<ops, now, last, scan, hook>>

\* confirmDelete up to its call of deleteRecursive(id)
confirmDeleteCall ==
    /\ OnDashboard
    /\ ~Running
    /\ dash.deleteTarget # NoId
    /\ track' = DelRun("confirmDelete", dash.deleteTarget,
                       <<Frame(dash.deleteTarget, <<>>, "children")>>, <<>>, FALSE)
    /\ UNCHANGED <<db, nextId, page, dash, wb>>
    /\ DelRest

\* const children = await db.nodes.where('parentId').equals(nodeId).toArray()
drChildren ==
    /\ AtCall("confirmDelete", "children")
    /\ track' = [track EXCEPT !.stack =
                    <<Frame(Top.nodeId, ToArray(WhereParent(db.nodes, Top.nodeId)), "each")>>
                    \o Tail(@)]
    /\ UNCHANGED <<db, nextId, page, dash, wb>>
    /\ DelRest

\* for (const child of children) await deleteRecursive(child.id): the call
drEach ==
    /\ AtCall("confirmDelete", "each")
    /\ Top.children # <<>>
    /\ track' = [track EXCEPT !.stack =
                    <<Frame(Head(Top.children).id, <<>>, "children"),
                      [Top EXCEPT !.children = Tail(@)]>> \o Tail(@)]
    /\ UNCHANGED <<db, nextId, page, dash, wb>>
    /\ DelRest

\* await db.edges.where('parentId').equals(nodeId).delete()
drEdges ==
    /\ AtCall("confirmDelete", "each")
    /\ Top.children = <<>>
    /\ db' = [db EXCEPT !.edges = {e \in @ : e.parentId # Top.nodeId}]
    /\ Advance("problems")
    /\ UNCHANGED <<nextId, page, dash, wb>>
    /\ DelRest

\* await db.problems.where('machineNodeId').equals(nodeId).delete()
drProblems ==
    /\ AtCall("confirmDelete", "problems")
    /\ db' = [db EXCEPT !.problems = {p \in @ : p.machineNodeId # Top.nodeId}]
    /\ Advance("victoryConditions")
    /\ UNCHANGED <<nextId, page, dash, wb>>
    /\ DelRest

\* await db.victoryConditions.where('machineNodeId').equals(nodeId).delete()
drVictoryConditions ==
    /\ AtCall("confirmDelete", "victoryConditions")
    /\ db' = [db EXCEPT !.victoryConditions = {v \in @ : v.machineNodeId # Top.nodeId}]
    /\ Advance("statusChanges")
    /\ UNCHANGED <<nextId, page, dash, wb>>
    /\ DelRest

\* await db.statusChanges.where('machineNodeId').equals(nodeId).delete()
drStatusChanges ==
    /\ AtCall("confirmDelete", "statusChanges")
    /\ db' = [db EXCEPT !.statusChanges = {c \in @ : c.machineNodeId # Top.nodeId}]
    /\ Advance("node")
    /\ UNCHANGED <<nextId, page, dash, wb>>
    /\ DelRest

\* await db.nodes.delete(nodeId) and the return; after the return of the
\* outermost activation, the four state updates of confirmDelete
drNode ==
    /\ AtCall("confirmDelete", "node")
    /\ db' = [db EXCEPT !.nodes = {n \in @ : n.id # Top.nodeId}]
    /\ track' = [track EXCEPT !.stack = Tail(@), !.gone = Append(@, Top.nodeId)]
    /\ dash' = IF Tail(track.stack) # <<>> THEN dash
               ELSE searchEffect(
                      [dash EXCEPT
                          !.machines = {m \in @ : m.id # track.target},
                          !.allNodes = {n \in @ : n.id # track.target
                                                  /\ n.parentId # track.target},
                          !.deleteTarget = NoId,
                          !.deleteSummary = ZeroTotals])
    /\ UNCHANGED <<nextId, page, wb>>
    /\ DelRest

\* handleDeleteNode is called from the context menu of a node of the canvas
handleDeleteNodeCall(nodeId) ==
    /\ OnWhiteboard
    /\ ~Running
    /\ nodeId \in wb.flowNodes
    /\ track' = DelRun("handleDeleteNode", nodeId,
                       <<Frame(nodeId, <<>>, "children")>>, <<>>, FALSE)
    /\ UNCHANGED <<db, nextId, page, dash, wb>>
    /\ DelRest

\* const children = await db.nodes.where('parentId').equals(nodeId).toArray()
hdChildren ==
    /\ AtCall("handleDeleteNode", "children")
    /\ track' = [track EXCEPT !.stack =
                    <<Frame(Top.nodeId, ToArray(WhereParent(db.nodes, Top.nodeId)), "each")>>]
    /\ UNCHANGED <<db, nextId, page, dash, wb>>
    /\ DelRest

\* for (const c of children) await db.nodes.delete(c.id)
hdEach ==
    /\ AtCall("handleDeleteNode", "each")
    /\ Top.children # <<>>
    /\ db' = [db EXCEPT !.nodes = {n \in @ : n.id # Head(Top.children).id}]
    /\ track' = [track EXCEPT !.stack = <<[Top EXCEPT !.children = Tail(@)]>>,
                              !.gone = Append(@, Head(Top.children).id)]
    /\ UNCHANGED <<nextId, page, dash, wb>>
    /\ DelRest

\* await db.edges.filter(e => e.source === nodeId || e.target === nodeId).delete()
hdEdges ==
    /\ AtCall("handleDeleteNode", "each")
    /\ Top.children = <<>>
    /\ db' = [db EXCEPT !.edges =
                 {e \in @ : ~(e.source = Top.nodeId \/ e.target = Top.nodeId)}]
    /\ Advance("problems")
    /\ UNCHANGED <<nextId, page, dash, wb>>
    /\ DelRest

hdProblems ==
    /\ AtCall("handleDeleteNode", "problems")
    /\ db' = [db EXCEPT !.problems = {p \in @ : p.machineNodeId # Top.nodeId}]
    /\ Advance("victoryConditions")
    /\ UNCHANGED <<nextId, page, dash, wb>>
    /\ DelRest

hdVictoryConditions ==
    /\ AtCall("handleDeleteNode", "victoryConditions")
    /\ db' = [db EXCEPT !.victoryConditions = {v \in @ : v.machineNodeId # Top.nodeId}]
    /\ Advance("node")
    /\ UNCHANGED <<nextId, page, dash, wb>>
    /\ DelRest

\* await db.nodes.delete(nodeId)
hdNode ==
    /\ AtCall("handleDeleteNode", "node")
    /\ db' = [db EXCEPT !.nodes = {n \in @ : n.id # Top.nodeId}]
    /\ track' = [track EXCEPT !.stack = <<[Top EXCEPT !.pc = "event"]>>,
                              !.gone = Append(@, Top.nodeId)]
    /\ UNCHANGED <<nextId, page, dash, wb>>
    /\ DelRest

\* await db.events.add({ ..., eventType: 'node-deleted' }) and the state
\* updates that follow it
hdEvent ==
    /\ AtCall("handleDeleteNode", "event")
    /\ db' = [db EXCEPT !.events =
                 @ \cup {EventRow(uuid(nextId), Top.nodeId, "node-deleted", "", "")}]
    /\ nextId' = nextId + 1
    /\ wb' = [wb EXCEPT
                !.dbNodes = {n \in @ : n.id # Top.nodeId},
                !.flowNodes = @ \ {Top.nodeId},
                !.flowEdges = {e \in @ : e.source # Top.nodeId /\ e.target # Top.nodeId},
                !.selectedNodeId = IF @ = Top.nodeId THEN NoId ELSE @]
    /\ track' = [track EXCEPT !.stack = <<>>]
    /\ UNCHANGED <<page, dash>>
    /\ DelRest

\* the awaited store call rejects: the handler ends where it stands
storeRejects ==
    /\ Running
    /\ ~(track.op = "confirmDelete" /\ Top.pc = "each" /\ Top.children # <<>>)
    /\ track' = [track EXCEPT !.stack = <<>>, !.failed = TRUE]
    /\ UNCHANGED <<db, nextId, page, dash, wb>>
    /\ DelRest

InitDel ==
    /\ \E data \in {DocChain, DocEdges} : db = DocStore(data)
    /\ nextId = 0
    /\ ops = 0
    /\ now = 0
    /\ page = "dashboard"
    /\ dash = DashboardMount(db)
    /\ wb = WbUnmounted
    /\ last = NoOp
    /\ scan = ScanIdle
    /\ hook = HookIdle
    /\ track = TrackIdle

NextDel ==
    \/ \E m \in dash.machines : ~Running /\ prepareDelete(m)
    \/ confirmDeleteCall
    \/ drChildren
    \/ drEach
    \/ drEdges
    \/ drProblems
    \/ drVictoryConditions
    \/ drStatusChanges
    \/ drNode
    \/ \E m \in dash.machines : ~Running /\ openMachine(m)
    \/ \E n \in wb.flowNodes : ~Running /\ onDrillDown(n)
    \/ ~Running /\ backToDashboard
    \/ \E n \in wb.flowNodes : handleDeleteNodeCall(n)
    \/ hdChildren
    \/ hdEach
    \/ hdEdges
    \/ hdProblems
    \/ hdVictoryConditions
    \/ hdNode
    \/ hdEvent
    \/ storeRejects

SpecDel == InitDel /\ [][NextDel]_vars

----------------------------------------------------------------------------
(* The root-resolution walks, one loop iteration at a time, over stores    *)
(* whose parentId pointers may form a cycle (handleImport stores the rows  *)
(* of a backup file as they are).                                          *)

\* Nodes 1 and 2 are each other's parent and node 3 hangs below 2; node 4
\* is a root with child 5.
DocCycle ==
    [present |-> {"nodes", "edges"},
     nodes |-> {NodeRow(1, 2, "machine", <<"A">>, "not-built", <<>>, 0),
                NodeRow(2, 1, "machine", <<"B">>, "not-built", <<>>, 0),
                NodeRow(3, 2, "sop", <<"Below">>, "not-built", <<>>, 0),
                NodeRow(4, NoId, "machine", <<"Sound">>, "not-built", <<>>, 0),
                NodeRow(5, 4, "tool", <<"Leaf">>, "not-built", <<>>, 0)},
     edges |-> {}, problems |-> {}, victoryConditions |-> {},
     statusChanges |-> {}, events |-> {}, captures |-> {}]

\* Node 1 is its own parent.
DocSelfParent ==
    [present |-> {"nodes", "edges"},
     nodes |-> {NodeRow(1, 1, "machine", <<"Loop">>, "not-built", <<>>, 0),
                NodeRow(2, 1, "note", <<"Below">>, "not-built", <<>>, 0)},
     edges |-> {}, problems |-> {}, victoryConditions |-> {},
     statusChanges |-> {}, events |-> {}, captures |-> {}]

WalkKinds == {"findRootMachine", "searchPath", "searchRoot", "breadcrumbs"}

\* a walk: the rows it has stood on, in order; cur, the row it stands on as
\* a set ({} for undefined); for the breadcrumbs cid and the visited set
WalkRun(kind, cur, cid, visited, visits, done) ==
    [kind |-> kind, cur |-> cur, cid |-> cid, visited |-> visited,
     visits |-> visits, done |-> done]

Walking(kind) == "visits" \in DOMAIN track /\ track.kind = kind /\ ~track.done

\* a set of at most one row as the list of the ids in it
IdOf(rows) == IF rows = {} THEN <<>> ELSE <<(CHOOSE r \in rows : TRUE).id>>

WalkRest == UNCHANGED <<db, nextId, ops, now, page, dash, wb, last, scan, hook>>

\* the walk is called for a stored node: let n = nodeMap.get(nodeId);
\* let current = node; let walk = node; let cid = parentId
walkCall(kind, nodeId) ==
    /\ "visits" \in DOMAIN track => track.done
    /\ track' = IF kind = "breadcrumbs"
                THEN WalkRun(kind, {}, nodeId, {}, <<>>, FALSE)
                ELSE WalkRun(kind, Get(db.nodes, nodeId), NoId, {},
                             IdOf(Get(db.nodes, nodeId)), FALSE)
    /\ WalkRest

\* findRootMachine: one test of while (n && n.parentId) and the body
findRootStep ==
    /\ Walking("findRootMachine")
    /\ Len(track.visits) < MaxVisits
    /\ LET n == CHOOSE q \in track.cur : TRUE
       IN  IF track.cur = {} \/ n.parentId = NoId \/ Get(db.nodes, n.parentId) = {}
           THEN track' = [track EXCEPT !.done = TRUE]
           ELSE track' = [track EXCEPT !.cur = Get(db.nodes, n.parentId),
                                       !.visits = Append(@, n.parentId)]
    /\ WalkRest

\* Dashboard search path: one test of while (current) and the body
searchPathStep ==
    /\ Walking("searchPath")
    /\ Len(track.visits) < MaxVisits
    /\ IF track.cur = {}
       THEN track' = [track EXCEPT !.done = TRUE]
       ELSE LET c == CHOOSE q \in track.cur : TRUE
                next == Get(dash.allNodes, c.parentId)
            IN  track' = [track EXCEPT !.cur = next, !.visits = @ \o IdOf(next)]
    /\ WalkRest

\* Dashboard search root: one test of while (walk && walk.parentId !== '')
\* and the body
searchRootStep ==
    /\ Walking("searchRoot")
    /\ Len(track.visits) < MaxVisits
    /\ IF track.cur = {} \/ (CHOOSE q \in track.cur : TRUE).parentId = NoId
       THEN track' = [track EXCEPT !.done = TRUE]
       ELSE LET w == CHOOSE q \in track.cur : TRUE
                next == Get(dash.allNodes, w.parentId)
            IN  track' = [track EXCEPT !.cur = next, !.visits = @ \o IdOf(next)]
    /\ WalkRest

\* Whiteboard breadcrumbs: one test of while (cid && !visited.has(cid)) and
\* the body
breadcrumbStep ==
    /\ Walking("breadcrumbs")
    /\ Len(track.visits) < MaxVisits
    /\ IF track.cid = NoId \/ track.cid \in track.visited
       THEN track' = [track EXCEPT !.done = TRUE]
       ELSE LET node == Get(db.nodes, track.cid)
            IN  IF node = {}
                THEN track' = [track EXCEPT !.visited = @ \cup {track.cid},
                                            !.done = TRUE]
                ELSE track' = [track EXCEPT
                                  !.visited = @ \cup {track.cid},
                                  !.cur = node,
                                  !.visits = Append(@, track.cid),
                                  !.cid = (CHOOSE q \in node : TRUE).parentId]
    /\ WalkRest

InitWalk ==
    /\ \E data \in {DocChain, DocCycle, DocSelfParent} : db = DocStore(data)
    /\ nextId = 0
    /\ ops = 0
    /\ now = 0
    /\ page = "dashboard"
    /\ dash = DashboardMount(db)
    /\ wb = WbUnmounted
    /\ last = NoOp
    /\ scan = ScanIdle
    /\ hook = HookIdle
    /\ track = TrackIdle

NextWalk ==
    \/ \E kind \in WalkKinds, n \in db.nodes : walkCall(kind, n.id)
    \/ findRootStep
    \/ searchPathStep
    \/ searchRootStep
    \/ breadcrumbStep

SpecWalk == InitWalk /\ [][NextWalk]_vars

----------------------------------------------------------------------------
(* A scan with the five reads of its Promise.all resolving one by one and  *)
(* the store writes of other handlers resolving in between.                *)

Collections == {"problems", "nodes", "victoryConditions", "captures", "statusChanges"}

\* how often the scan in flight has read each collection, and the writes
\* of other handlers so far
RaceIdle == [reads |-> [c \in Collections |-> 0], writes |-> 0]

\* the writes: Whiteboard handleUpdateNode with a status (the node row and a
\* StatusChange row), handleUpdateProblem resolving a problem, handleUpdateVC
\* meeting a condition, Inbox marking a capture processed
StoreWrites == {"unblock", "block", "resolve", "meet", "process"}

applyWrite(d, w, clock) ==
    CASE w = "unblock" ->
            [d EXCEPT
                !.nodes = {IF n.id = 2 THEN [n EXCEPT !.statusId = "running",
                                                      !.updatedAt = clock]
                           ELSE n : n \in @},
                !.statusChanges = @ \cup {StatusChangeRow(20, 2, "blocked", "running", clock)}]
      [] w = "block" ->
            [d EXCEPT
                !.nodes = {IF n.id = 2 THEN [n EXCEPT !.statusId = "blocked",
                                                      !.updatedAt = clock]
                           ELSE n : n \in @},
                !.statusChanges = @ \cup {StatusChangeRow(21, 2, "running", "blocked", clock)}]
      [] w = "resolve" ->
            [d EXCEPT !.problems = {IF p.id = 4 THEN [p EXCEPT !.status = "resolved"]
                                    ELSE p : p \in @}]
      [] w = "meet" ->
            [d EXCEPT !.victoryConditions = {IF v.id = 8 THEN [v EXCEPT !.met = TRUE]
                                             ELSE v : v \in @}]
      [] w = "process" ->
            [d EXCEPT !.captures = {IF c.id = 15 THEN [c EXCEPT !.processed = TRUE]
                                    ELSE c : c \in @}]

RaceRest == UNCHANGED <<nextId, ops, now, page, dash, wb, last, hook>>

\* the effect of useDashboardScan calls runScan: the five reads are issued
raceIssue ==
    /\ scan.phase = "idle"
    /\ scan' = [scan EXCEPT !.phase = "fetching"]
    /\ track' = [track EXCEPT !.reads = [c \in Collections |-> 0]]
    /\ UNCHANGED db
    /\ RaceRest

\* one of the five reads resolves with the rows the store holds now; with
\* the last one the Promise.all resolves
raceRead(c) ==
    /\ scan.phase = "fetching"
    /\ track.reads[c] = 0
    /\ scan' = [scan EXCEPT
                   !.snapshot[c] = prefetch(db)[c],
                   !.phase = IF \A o \in Collections \ {c} : track.reads[o] > 0
                             THEN "fetched" ELSE @]
    /\ track' = [track EXCEPT !.reads[c] = @ + 1]
    /\ UNCHANGED db
    /\ RaceRest

\* a write of another handler resolves
storeWrite(w) ==
    /\ track.writes < MaxWrites
    /\ db' = applyWrite(db, w, now)
    /\ db' # db
    /\ track' = [track EXCEPT !.writes = @ + 1]
    /\ UNCHANGED scan
    /\ RaceRest

InitRace ==
    /\ db \in {ScanStore(tp, 0, 0, "running") : tp \in ScanStamps}
    /\ nextId = 0
    /\ ops = 0
    /\ now = MaxNow
    /\ page = "dashboard"
    /\ dash = DashboardMount(db)
    /\ wb = WbUnmounted
    /\ last = NoOp
    /\ scan = ScanIdle
    /\ hook = HookIdle
    /\ track = RaceIdle

NextRace ==
    \/ raceIssue
    \/ \E c \in Collections : raceRead(c)
    \/ scanDetect
    \/ scanRemount
    \/ \E w \in StoreWrites : storeWrite(w)

SpecRace == InitRace /\ [][NextRace]_vars

----------------------------------------------------------------------------
(* useUndoRedo with its renders: the three callbacks are those of the      *)
(* latest render and read the flowNodes, flowEdges, past and future that   *)
(* render was given; a call made before the next render reads them stale.  *)

\* what the callbacks of a render close over
Closure(h) ==
    [flowNodes |-> h.flowNodes, flowEdges |-> h.flowEdges,
     past |-> h.past, future |-> h.future]

\* the latest render, and the last call: the hook state it found and the
\* closure it ran with
RenderIdle ==
    [render |-> Closure(HookIdle), call |-> "none", pre |-> HookIdle,
     c |-> Closure(HookIdle)]

Called(name) == track' = [track EXCEPT !.call = name, !.pre = hook, !.c = track.render]

RenderRest == UNCHANGED <<db, nextId, now, page, dash, wb, last, scan>>

CallStep == ops < MaxCalls /\ ops' = ops + 1

\* the component renders: useCallback makes the callbacks anew
render ==
    /\ track.render # Closure(hook)
    /\ track' = [track EXCEPT !.render = Closure(hook)]
    /\ UNCHANGED <<hook, ops>>
    /\ RenderRest

\* the caller drags node 1 to x (setFlowNodes)
dragNode(x) ==
    /\ CallStep
    /\ hook.flowNodes[1].x # x
    /\ hook' = [hook EXCEPT !.flowNodes[1].x = x]
    /\ Called("edit")
    /\ RenderRest

\* the caller connects node 1 to node 2 by edge 7, or removes that edge
connectNodes ==
    /\ CallStep
    /\ hook' = [hook EXCEPT !.flowEdges = IF @ = <<>> THEN <<7>> ELSE <<>>]
    /\ Called("edit")
    /\ RenderRest

renderTakeSnapshot ==
    /\ CallStep
    /\ hook' = takeSnapshot(hook, track.render)
    /\ Called("takeSnapshot")
    /\ RenderRest

renderUndo ==
    /\ CallStep
    /\ hook' = undo(hook, track.render)
    /\ Called("undo")
    /\ RenderRest

renderRedo ==
    /\ CallStep
    /\ hook' = redo(hook, track.render)
    /\ Called("redo")
    /\ RenderRest

InitRender ==
    /\ db = EmptyDb
    /\ nextId = 0
    /\ ops = 0
    /\ now = 0
    /\ page = "whiteboard"
    /\ dash = DashUnmounted
    /\ wb = WbUnmounted
    /\ last = NoOp
    /\ scan = ScanIdle
    /\ hook = HookIdle
    /\ track = RenderIdle

NextRender ==
    \/ render
    \/ \E x \in {0, 1} : dragNode(x)
    \/ connectNodes
    \/ renderTakeSnapshot
    \/ renderUndo
    \/ renderRedo
    \/ replayTimeout

SpecRender == InitRender /\ [][NextRender]_vars

----------------------------------------------------------------------------
(* handleImport one awaited store call at a time, over the eleven tables   *)
(* of the store; a row is kept as its id and what it holds.                *)

\* the tables handleImport clears and fills, in the order of its calls
ImportOrder ==
    <<"nodes", "edges", "problems", "victoryConditions", "vcSnapshots",
      "statusChanges", "levers", "principles", "captures", "events">>

\* export const db = { ... }
AllTables == {ImportOrder[i] : i \in 1..Len(ImportOrder)} \cup {"statuses"}

\* a row of table t: a root machine in nodes, else its id and what it holds
Row(t, id, holds) ==
    IF t = "nodes"
    THEN NodeRow(id, NoId, "machine", <<holds>>, "not-built", <<>>, 0)
    ELSE [id |-> id, holds |-> holds]

\* a backup as handleExport writes it: every array present
BackupFull ==
    [present |-> AllTables,
     rows |-> [t \in AllTables |->
                  IF t = "statuses" THEN {Row(t, 31, "custom")}
                  ELSE IF t \in {"nodes", "events"}
                       THEN {Row(t, 1, "file"), Row(t, 2, "file")}
                       ELSE {Row(t, 1, "file")}]]

\* a backup of an older version: only nodes and edges, no node
BackupOld ==
    [present |-> {"nodes", "edges"},
     rows |-> [t \in AllTables |-> IF t = "edges" THEN {Row(t, 1, "old")} ELSE {}]]

\* a file without an edges array
BackupNoEdges ==
    [present |-> AllTables \ {"edges"},
     rows |-> [t \in AllTables |-> IF t = "edges" THEN {} ELSE {Row(t, 1, "file")}]]

Backups == {BackupFull, BackupOld, BackupNoEdges}

\* the store before the first import: the seeded statuses and some rows
SeededStore ==
    [t \in AllTables |->
        IF t = "statuses" THEN {Row(t, 30, "seeded")} ELSE {Row(t, 3, "store")}]

\* clear(): delete().neq('id', '')
clearTable(rows) == {r \in rows : r.id = NoId}

\* the import in flight: the parsed file, the next call, the calls made
ImportRun(data, pc, at, calls, before) ==
    [data |-> data, pc |-> pc, at |-> at, calls |-> calls, before |-> before]

ImportIdle == ImportRun(BackupOld, "idle", 1, <<>>, SeededStore)

ImportRest == UNCHANGED <<nextId, ops, now, page, wb, last, scan, hook>>

\* input.onchange: the file is parsed; alert('Invalid backup file') and
\* return, or on to the first clear
importFile(data) ==
    /\ track.pc \in {"idle", "done", "invalid", "failed"}
    /\ track' = ImportRun(data,
                          IF {"nodes", "edges"} \subseteq data.present
                          THEN "clear" ELSE "invalid",
                          1, <<>>, db)
    /\ UNCHANGED <<db, dash>>
    /\ ImportRest

\* await db.<table>.clear(), the tables in order
importClear ==
    /\ track.pc = "clear"
    /\ LET t == ImportOrder[track.at]
       IN  /\ db' = [db EXCEPT ![t] = clearTable(@)]
           /\ track' = [track EXCEPT
                           !.calls = Append(@, <<"clear", t>>),
                           !.at = IF track.at = Len(ImportOrder) THEN 1 ELSE @ + 1,
                           !.pc = IF track.at = Len(ImportOrder) THEN "add" ELSE @]
    /\ UNCHANGED dash
    /\ ImportRest

\* if (data.<table>?.length) await db.<table>.bulkAdd(data.<table>), the
\* tables in order
importAdd ==
    /\ track.pc = "add"
    /\ LET t == ImportOrder[track.at]
           rows == IF t \in track.data.present THEN track.data.rows[t] ELSE {}
       IN  /\ db' = [db EXCEPT ![t] = @ \cup rows]
           /\ track' = [track EXCEPT
                           !.calls = IF rows = {} THEN @ ELSE Append(@, <<"bulkAdd", t>>),
                           !.at = IF track.at = Len(ImportOrder) THEN 1 ELSE @ + 1,
                           !.pc = IF track.at = Len(ImportOrder) THEN "reload" ELSE @]
    /\ UNCHANGED dash
    /\ ImportRest

\* window.location.reload(): the Dashboard mounts over the store
importReload ==
    /\ track.pc = "reload"
    /\ dash' = DashboardMount(db)
    /\ track' = [track EXCEPT !.pc = "done"]
    /\ UNCHANGED db
    /\ ImportRest

\* a store call rejects: alert('Failed to import: ...')
importFails ==
    /\ track.pc \in {"clear", "add"}
    /\ track' = [track EXCEPT !.pc = "failed"]
    /\ UNCHANGED <<db, dash>>
    /\ ImportRest

InitImport ==
    /\ db = SeededStore
    /\ nextId = 0
    /\ ops = 0
    /\ now = 0
    /\ page = "dashboard"
    /\ dash = DashboardMount(db)
    /\ wb = WbUnmounted
    /\ last = NoOp
    /\ scan = ScanIdle
    /\ hook = HookIdle
    /\ track = ImportIdle

NextImport ==
    \/ \E data \in Backups : importFile(data)
    \/ importClear
    \/ importAdd
    \/ importReload
    \/ importFails

SpecImport == InitImport /\ [][NextImport]_vars

----------------------------------------------------------------------------
(* Whiteboard handleUpdateNode with a status, one awaited store call at a  *)
(* time; two calls may be in flight, and a store call may reject.  The     *)
(* callback reads currentNode from the dbNodes of the render it is called  *)
(* from.                                                                   *)

Callers == {1, 2}

UpdateStatuses == {"running", "blocked", "not-built"}

\* a call in flight: the node, what it read as the current status, the
\* status it sets, the call it is about to make, the row it has inserted
UpdateCall(id, from, to, pc, sc) == [id |-> id, from |-> from, to |-> to, pc |-> pc, sc |-> sc]

NoCall == UpdateCall(NoId, "", "", "idle", NoId)

\* the calls in flight, the StatusChange rows in the order they were
\* written, the ids of those whose node update went through, and whether a
\* store call has rejected
UpdateIdle ==
    [calls |-> [p \in Callers |-> NoCall], written |-> <<>>, persisted |-> {},
     failed |-> FALSE]

UpdateRest == UNCHANGED <<now, page, dash, last, scan, hook>>

\* handleUpdateNode(id, { statusId }): currentNode is looked up in dbNodes
updateCall(p, id, statusId) ==
    /\ track.calls[p].pc = "idle"
    /\ ops < MaxUpdates
    /\ ops' = ops + 1
    /\ LET currentNode == Get(wb.dbNodes, id)
           from == IF currentNode = {} THEN ""
                   ELSE (CHOOSE n \in currentNode : TRUE).statusId
       IN  track' = [track EXCEPT !.calls[p] =
                        UpdateCall(id, from, statusId,
                                   IF currentNode # {} /\ from # statusId
                                   THEN "statusChange" ELSE "update",
                                   NoId)]
    /\ UNCHANGED <<db, nextId, wb>>
    /\ UpdateRest

\* await db.statusChanges.add({ id: uuid(), ..., changedAt: new Date() })
updateStatusChange(p) ==
    /\ track.calls[p].pc = "statusChange"
    /\ LET c == track.calls[p]
           row == StatusChangeRow(uuid(nextId), c.id, c.from, c.to, now)
       IN  /\ db' = [db EXCEPT !.statusChanges = @ \cup {row}]
           /\ track' = [track EXCEPT !.calls[p].pc = "event",
                                     !.calls[p].sc = row.id,
                                     !.written = Append(@, row)]
    /\ nextId' = nextId + 1
    /\ UNCHANGED <<ops, wb>>
    /\ UpdateRest

\* await db.events.add({ ..., eventType: 'status-change', ... })
updateEvent(p) ==
    /\ track.calls[p].pc = "event"
    /\ LET c == track.calls[p]
       IN  db' = [db EXCEPT !.events =
                     @ \cup {EventRow(uuid(nextId), c.id, "status-change", c.from, c.to)}]
    /\ track' = [track EXCEPT !.calls[p].pc = "update"]
    /\ nextId' = nextId + 1
    /\ UNCHANGED <<ops, wb>>
    /\ UpdateRest

\* await db.nodes.update(id, { ...updates, updatedAt: new Date() }), then
\* setDbNodes(prev => prev.map(...)) and the render
updateNodeRow(p) ==
    /\ track.calls[p].pc = "update"
    /\ LET c == track.calls[p]
       IN  /\ db' = [db EXCEPT !.nodes =
                        {IF n.id = c.id
                         THEN [n EXCEPT !.statusId = c.to, !.updatedAt = now]
                         ELSE n : n \in @}]
           /\ wb' = [wb EXCEPT !.dbNodes =
                        updateDbNodes(@, c.id, [statusId |-> c.to, notes |-> FALSE])]
           /\ track' = [track EXCEPT
                           !.calls[p] = NoCall,
                           !.persisted = IF c.sc = NoId THEN @ ELSE @ \cup {c.sc}]
    /\ UNCHANGED <<ops, nextId>>
    /\ UpdateRest

\* the awaited store call rejects (SupabaseTable: if (error) throw error);
\* the handler has no catch and ends
updateRejects(p) ==
    /\ track.calls[p].pc \in {"statusChange", "event", "update"}
    /\ track' = [track EXCEPT !.calls[p] = NoCall, !.failed = TRUE]
    /\ UNCHANGED <<db, ops, nextId, wb>>
    /\ UpdateRest

InitUpdate ==
    /\ db = DocStore(DocChain)
    /\ nextId = 0
    /\ ops = 0
    /\ now = 0
    /\ page = "whiteboard"
    /\ dash = DashUnmounted
    /\ wb = WhiteboardLoad(WbUnmounted, db, 1)
    /\ last = NoOp
    /\ scan = ScanIdle
    /\ hook = HookIdle
    /\ track = UpdateIdle

NextUpdate ==
    \/ \E p \in Callers, n \in wb.flowNodes, s \in UpdateStatuses : updateCall(p, n, s)
    \/ \E p \in Callers : updateStatusChange(p)
    \/ \E p \in Callers : updateEvent(p)
    \/ \E p \in Callers : updateNodeRow(p)
    \/ \E p \in Callers : updateRejects(p)

SpecUpdate == InitUpdate /\ [][NextUpdate]_vars

----------------------------------------------------------------------------
(* Dashboard duplicateMachine one awaited store call at a time; a store    *)
(* call may reject, and the handler, which has no catch, ends there.       *)

\* an activation of cloneRecursive(nodeId, newParentId): the clone row once
\* built, the arrays once read, and the call it is about to make
CloneFrame(nodeId, newParentId) ==
    [nodeId |-> nodeId, newParentId |-> newParentId, pc |-> "get",
     newId |-> NoId, clone |-> {}, rows |-> <<>>]

\* children cloned before the node row is added
cloneAfter_childrenFirst(pc) ==
    CASE pc = "get" -> "children"
      [] pc = "children" -> "each"
      [] pc = "each" -> "add"
      [] pc = "add" -> "edges"
      [] pc = "edges" -> "eachEdge"
      [] pc = "eachEdge" -> "victoryConditions"
      [] pc = "victoryConditions" -> "eachVC"
      [] pc = "eachVC" -> "return"

\* the order of the awaits in cloneRecursive
cloneAfter(pc) ==
    CASE pc = "get" -> "add"
      [] pc = "add" -> "children"
      [] pc = "children" -> "each"
      [] pc = "each" -> "edges"
      [] pc = "edges" -> "eachEdge"
      [] pc = "eachEdge" -> "victoryConditions"
      [] pc = "victoryConditions" -> "eachVC"
      [] pc = "eachVC" -> "return"

\* the duplicate in flight: the activations, innermost first, idMap, the
\* store it started from, the node rows it has added, in order
CloneRun(target, stack, idMap, pre, added, phase) ==
    [target |-> target, stack |-> stack, idMap |-> idMap, pre |-> pre,
     added |-> added, phase |-> phase]

CloneIdle == CloneRun(NoId, <<>>, {}, EmptyDb, <<>>, "idle")

CloneAt(pc) == track.phase = "cloning" /\ Head(track.stack).pc = pc

\* the innermost activation goes on to pc, or returns to its caller and,
\* from the outermost one, to the refresh of duplicateMachine
CloneGoes(frame, pc) ==
    IF pc # "return" THEN <<[frame EXCEPT !.pc = pc]>> \o Tail(track.stack)
    ELSE Tail(track.stack)

ClonePhase(stack) == IF stack = <<>> THEN "refresh" ELSE "cloning"

CloneRest == UNCHANGED <<now, page, wb, last, scan, hook>>

\* duplicateMachine up to its call of cloneRecursive(machine.id, '')
duplicateCall(machine) ==
    /\ OnDashboard
    /\ track.phase \in {"idle", "done", "failed"}
    /\ ops < MaxClones
    /\ ops' = ops + 1
    /\ track' = CloneRun(machine.id, <<CloneFrame(machine.id, NoId)>>, {}, db, <<>>,
                         "cloning")
    /\ UNCHANGED <<db, nextId, dash>>
    /\ CloneRest

\* const node = await db.nodes.get(nodeId); if (!node) return; newId,
\* idMap.set and the clone row with its step ids
cloneGet ==
    /\ CloneAt("get")
    /\ LET f == Head(track.stack)
           node == Get(db.nodes, f.nodeId)
       IN  IF node = {}
           THEN /\ track' = [track EXCEPT !.stack = Tail(@),
                                          !.phase = ClonePhase(Tail(track.stack))]
                /\ UNCHANGED nextId
           ELSE LET n == CHOOSE q \in node : TRUE
                    newId == uuid(nextId)
                    g == [f EXCEPT !.newId = newId,
                                   !.clone = {cloneNode(n, newId, f.newParentId,
                                                        nextId + 1, now)}]
                IN  /\ track' = [track EXCEPT
                                    !.idMap = MapSet(@, f.nodeId, newId),
                                    !.stack = CloneGoes(g, cloneAfter("get"))]
                    /\ nextId' = nextId + 1 + Len(n.steps)
    /\ UNCHANGED <<db, ops, dash>>
    /\ CloneRest

\* await db.nodes.add(clone)
cloneAdd ==
    /\ CloneAt("add")
    /\ LET f == Head(track.stack)
           clone == CHOOSE c \in f.clone : TRUE
       IN  /\ db' = [db EXCEPT !.nodes = @ \cup {clone}]
           /\ track' = [track EXCEPT !.added = Append(@, clone),
                                     !.stack = CloneGoes(f, cloneAfter("add"))]
    /\ UNCHANGED <<nextId, ops, dash>>
    /\ CloneRest

\* the three reads: children, edges and victory conditions of nodeId
cloneRead ==
    /\ \E pc \in {"children", "edges", "victoryConditions"} : CloneAt(pc)
    /\ LET f == Head(track.stack)
           rows == CASE f.pc = "children" -> WhereParent(db.nodes, f.nodeId)
                     [] f.pc = "edges" -> WhereParent(db.edges, f.nodeId)
                     [] f.pc = "victoryConditions" ->
                            WhereMachineNode(db.victoryConditions, f.nodeId)
       IN  track' = [track EXCEPT
                        !.stack = CloneGoes([f EXCEPT !.rows = ToArray(rows)],
                                            cloneAfter(f.pc))]
    /\ UNCHANGED <<db, nextId, ops, dash>>
    /\ CloneRest

\* for (const child of children) await cloneRecursive(child.id, newId)
cloneChild ==
    /\ CloneAt("each")
    /\ Head(track.stack).rows # <<>>
    /\ LET f == Head(track.stack)
       IN  track' = [track EXCEPT !.stack =
                        <<CloneFrame(Head(f.rows).id, f.newId),
                          [f EXCEPT !.rows = Tail(@)]>> \o Tail(@)]
    /\ UNCHANGED <<db, nextId, ops, dash>>
    /\ CloneRest

\* await db.edges.add({ ...edge, id: uuid(), parentId: newId, ... })
cloneEdgeAdd ==
    /\ CloneAt("eachEdge")
    /\ Head(track.stack).rows # <<>>
    /\ LET f == Head(track.stack)
       IN  /\ db' = [db EXCEPT !.edges =
                        @ \cup {cloneEdge(Head(f.rows), uuid(nextId), f.newId, track.idMap)}]
           /\ track' = [track EXCEPT !.stack = <<[f EXCEPT !.rows = Tail(@)]>> \o Tail(@)]
    /\ nextId' = nextId + 1
    /\ UNCHANGED <<ops, dash>>
    /\ CloneRest

\* await db.victoryConditions.add({ ...vc, id: uuid(), machineNodeId: newId })
cloneVCAdd ==
    /\ CloneAt("eachVC")
    /\ Head(track.stack).rows # <<>>
    /\ LET f == Head(track.stack)
       IN  /\ db' = [db EXCEPT !.victoryConditions =
                        @ \cup {[Head(f.rows) EXCEPT !.id = uuid(nextId),
                                                     !.machineNodeId = f.newId]}]
           /\ track' = [track EXCEPT !.stack = <<[f EXCEPT !.rows = Tail(@)]>> \o Tail(@)]
    /\ nextId' = nextId + 1
    /\ UNCHANGED <<ops, dash>>
    /\ CloneRest

\* a for loop is through
cloneLoopEnds ==
    /\ \E pc \in {"each", "eachEdge", "eachVC"} : CloneAt(pc)
    /\ Head(track.stack).rows = <<>>
    /\ LET f == Head(track.stack)
           stack == CloneGoes(f, cloneAfter(f.pc))
       IN  track' = [track EXCEPT !.stack = stack, !.phase = ClonePhase(stack)]
    /\ UNCHANGED <<db, nextId, ops, dash>>
    /\ CloneRest

\* the refresh: both lists are read from the store again
cloneRefresh ==
    /\ track.phase = "refresh"
    /\ dash' = searchEffect([dash EXCEPT !.machines = WhereParent(db.nodes, NoId),
                                         !.allNodes = db.nodes])
    /\ track' = [track EXCEPT !.phase = "done"]
    /\ UNCHANGED <<db, nextId, ops>>
    /\ CloneRest

\* the awaited store call rejects
cloneRejects ==
    /\ \/ track.phase = "refresh"
       \/ /\ track.phase = "cloning"
          /\ ~(Head(track.stack).pc \in {"each", "eachEdge", "eachVC"}
                 /\ Head(track.stack).rows = <<>>)
          /\ ~(Head(track.stack).pc = "each")
    /\ track' = [track EXCEPT !.stack = <<>>, !.phase = "failed"]
    /\ UNCHANGED <<db, nextId, ops, dash>>
    /\ CloneRest

InitClone ==
    /\ \E data \in {DocChain, DocEdges} : db = DocStore(data)
    /\ nextId = 0
    /\ ops = 0
    /\ now = 0
    /\ page = "dashboard"
    /\ dash = DashboardMount(db)
    /\ wb = WbUnmounted
    /\ last = NoOp
    /\ scan = ScanIdle
    /\ hook = HookIdle
    /\ track = CloneIdle

NextClone ==
    \/ \E m \in dash.machines : duplicateCall(m)
    \/ cloneGet
    \/ cloneAdd
    \/ cloneRead
    \/ cloneChild
    \/ cloneEdgeAdd
    \/ cloneVCAdd
    \/ cloneLoopEnds
    \/ cloneRefresh
    \/ cloneRejects

SpecClone == InitClone /\ [][NextClone]_vars

----------------------------------------------------------------------------
(* Vocabulary of the properties *)

\* ids of the nodes of rows that lie in the subtree below (and with) the ids S
RECURSIVE SubtreeClosure(_, _)
SubtreeClosure(rows, S) ==
    LET S2 == S \cup {n.id : n \in {m \in rows : m.parentId \in S}}
    IN  IF S2 = S THEN S ELSE SubtreeClosure(rows, S2)

SubtreeIds(rows, id) == SubtreeClosure(rows, {id})

\* ids of id and of the ancestors that the parentId pointers resolve to
RECURSIVE AncestorClosure(_, _)
AncestorClosure(rows, S) ==
    LET S2 == S \cup {n.parentId : n \in {m \in rows : m.id \in S /\ m.parentId \in Ids(rows)}}
    IN  IF S2 = S THEN S ELSE AncestorClosure(rows, S2)

Chain(rows, id) == {n \in rows : n.id \in AncestorClosure(rows, {id})}

\* the hierarchy above id is acyclic: the chain ends in a node without a
\* resolvable parent
AcyclicAbove(rows, id) ==
    \E r \in Chain(rows, id) : r.parentId \notin Ids(rows)

\* the node that ends the chain: empty parentId, or a parentId that no row has
TopOf(rows, id) ==
    (CHOOSE r \in Chain(rows, id) : r.parentId \notin Ids(rows)).id

\* the number of parentId pointers on the chain
DepthOf(rows, id) == Cardinality({n \in Chain(rows, id) : n.parentId # NoId})

\* every id a store holds in its node, edge and victory-condition tables
TableIds(d) == Ids(d.nodes) \cup Ids(d.edges) \cup Ids(d.victoryConditions)

Deleted == last.op \in {"confirmDelete", "handleDeleteNode"}

Duplicated == last.op = "duplicateMachine"

Updated == last.op = "handleUpdateNode"

----------------------------------------------------------------------------
(* C1 *)

\* C1: after a delete of N, from the dashboard or from the whiteboard, N and
\* every transitive descendant of N are gone from the nodes, and no node
\* (parentId), edge (source, target), problem or victory condition left in
\* the store refers to one of them.
C1_DeleteLeavesNoReference ==
    Deleted =>
        LET gone == SubtreeIds(last.pre.nodes, last.id)
        IN  /\ Ids(db.nodes) \cap gone = {}
            /\ \A n \in db.nodes : n.parentId \notin gone
            /\ \A e \in db.edges : e.source \notin gone /\ e.target \notin gone
            /\ \A p \in db.problems : p.machineNodeId \notin gone
            /\ \A v \in db.victoryConditions : v.machineNodeId \notin gone

----------------------------------------------------------------------------
(* C2 *)

ClonedIds == SubtreeIds(last.pre.nodes, last.id)

NewNodes == {n \in db.nodes : n.id \notin Ids(last.pre.nodes)}

NewEdges == {e \in db.edges : e.id \notin Ids(last.pre.edges)}

\* C2: a duplicate of N inserts exactly one node row per node of N's
\* subtree, with an id no row had before, its parentId being the clone of
\* the original's parent ('' for the clone of N); as many rows are inserted
\* as the subtree has nodes.
C2_CloneOneRowPerNode ==
    Duplicated =>
        /\ Cardinality(NewNodes) = Cardinality(ClonedIds)
        /\ {p[1] : p \in last.idMap} = ClonedIds
        /\ {p[2] : p \in last.idMap} = Ids(NewNodes)
        /\ Ids(NewNodes) \cap TableIds(last.pre) = {}
        /\ \A n \in last.pre.nodes :
              n.id \in ClonedIds =>
                 \E c \in NewNodes :
                    /\ <<n.id, c.id>> \in last.idMap
                    /\ c.parentId = IF n.id = last.id THEN NoId
                                    ELSE MapGetOr(last.idMap, n.parentId)
                    /\ c.parentId \notin Ids(last.pre.nodes)
                    /\ c.type = n.type

\* a duplicate of a subtree three levels deep
C2_Witness ==
    /\ Duplicated
    /\ \E n, m \in last.pre.nodes :
          /\ n.parentId = last.id
          /\ m.parentId = n.id
          /\ Cardinality(NewNodes) >= 3

----------------------------------------------------------------------------
(* C3, C4 *)

SameLink(e, f) ==
    e.parentId = f.parentId /\ e.source = f.source /\ e.target = f.target

\* the edges owned at a cloned level with both ends in the cloned subtree
InternalEdges ==
    {e \in last.pre.edges :
        e.parentId \in ClonedIds /\ e.source \in ClonedIds /\ e.target \in ClonedIds}

\* C3: for every edge owned at a cloned level whose source and target are
\* nodes of the cloned subtree, the duplicate creates exactly one new edge,
\* with a fresh id, joining the clones of its parentId, source and target.
C3_InternalEdgesCloned ==
    Duplicated =>
        \A e \in InternalEdges :
            Cardinality({c \in NewEdges :
                            /\ c.parentId = MapGetOr(last.idMap, e.parentId)
                            /\ c.source = MapGetOr(last.idMap, e.source)
                            /\ c.target = MapGetOr(last.idMap, e.target)
                            /\ c.id \notin TableIds(last.pre)})
              = Cardinality({f \in InternalEdges : SameLink(e, f)})

\* C4: a duplicate creates no edge with an end outside the clone: every new
\* edge joins two new nodes, none refers to an original node.
C4_NoEdgeLeavesClone ==
    Duplicated =>
        \A c \in NewEdges :
            /\ c.source \in Ids(NewNodes) /\ c.target \in Ids(NewNodes)
            /\ c.source \notin Ids(last.pre.nodes)
            /\ c.target \notin Ids(last.pre.nodes)

----------------------------------------------------------------------------
(* C5 *)

\* what a root walk over rows from id has to return, and in how many lookups
RootWalkOk(rows, id, got, steps) ==
    /\ got = TopOf(rows, id)
    /\ steps <= DepthOf(rows, id) + 1

\* C5: in an acyclic hierarchy every root walk ends within depth + 1 lookups
\* and returns the ancestor with the empty parentId or, under a parentId
\* that resolves to no node, the last node that did resolve; for the
\* scanner's findRootMachine, the dashboard search and the breadcrumbs.
C5_ResolveRoot ==
    /\ \A n \in db.nodes :
          AcyclicAbove(db.nodes, n.id) =>
             /\ LET r == findRootMachine(db.nodes, n.id)
                IN  RootWalkOk(db.nodes, n.id, r.id, r.steps)
             /\ LET b == breadcrumbWalk(db.nodes, n.id, {}, <<>>, 0)
                IN  RootWalkOk(db.nodes, n.id, Head(b.trail), b.steps)
    /\ dash.showSearch =>
          \A i \in 1..Len(dash.searchResults) :
             LET r == dash.searchResults[i]
             IN  AcyclicAbove(dash.allNodes, r.node) =>
                    RootWalkOk(dash.allNodes, r.node, r.rootMachineId, r.steps)
    /\ (OnWhiteboard /\ Len(wb.breadcrumbs) > 1) =>
          wb.breadcrumbs[2] = TopOf(db.nodes, wb.parentId)

----------------------------------------------------------------------------
(* C8 *)

StatusOf(rows, id) == (CHOOSE n \in rows : n.id = id).statusId

NewStatusChanges == db.statusChanges \ last.pre.statusChanges

NewStatusEvents ==
    {e \in db.events \ last.pre.events : e.eventType = "status-change"}

\* C8: an update that changes the persisted statusId of a node from a to b
\* appends exactly one StatusChange row (the node, a, b) and exactly one
\* status-change Event row of the node; an update that leaves the statusId
\* as it was appends neither.
C8_StatusChangeLogged ==
    Updated =>
        IF /\ last.id \in Ids(last.pre.nodes)
           /\ StatusOf(last.pre.nodes, last.id) # StatusOf(db.nodes, last.id)
        THEN /\ Cardinality(NewStatusChanges) = 1
             /\ \A c \in NewStatusChanges :
                   /\ c.machineNodeId = last.id
                   /\ c.fromStatusId = StatusOf(last.pre.nodes, last.id)
                   /\ c.toStatusId = StatusOf(db.nodes, last.id)
             /\ Cardinality(NewStatusEvents) = 1
             /\ \A e \in NewStatusEvents : e.nodeId = last.id
        ELSE NewStatusChanges = {} /\ NewStatusEvents = {}

----------------------------------------------------------------------------
(* C6, C7 *)

SeverityRank == [normal |-> 0, amber |-> 1, red |-> 2, critical |-> 3]

\* the tiers whose cutoff the age meets
TiersMet(days, thresholds) ==
    {t \in {"amber", "red", "critical"} : days >= thresholds[t]}

\* the highest tier whose cutoff is met, else normal
HighestTier(days, thresholds) ==
    IF TiersMet(days, thresholds) = {} THEN "normal"
    ELSE CHOOSE t \in TiersMet(days, thresholds) :
            \A u \in TiersMet(days, thresholds) : SeverityRank[u] <= SeverityRank[t]

AgeRange == (0 - 2)..(MaxNow \div TicksPerDay + 1)

Profiles == {"problem", "staleness", "capture", "blocked"}

\* C6: every age classified in a scan gets the highest tier whose cutoff it
\* meets, else normal; with the problem thresholds 3/7/14 the ages 2, 3, 7,
\* 14, 20 give normal, amber, red, critical, critical; and an older age never
\* gets a lower tier than a younger one.
C6_HighestTierMet ==
    /\ \A i \in 1..Len(scan.candidates) :
          LET c == scan.candidates[i]
          IN  c.item.severity =
                 HighestTier(c.item.ageDays, ATTENTION_THRESHOLDS[c.profile])
    /\ <<getSeverity(2, ATTENTION_THRESHOLDS.problem),
         getSeverity(3, ATTENTION_THRESHOLDS.problem),
         getSeverity(7, ATTENTION_THRESHOLDS.problem),
         getSeverity(14, ATTENTION_THRESHOLDS.problem),
         getSeverity(20, ATTENTION_THRESHOLDS.problem)>>
          = <<"normal", "amber", "red", "critical", "critical">>
    /\ \A p \in Profiles : \A d1, d2 \in AgeRange :
          d1 <= d2 =>
             SeverityRank[getSeverity(d1, ATTENTION_THRESHOLDS[p])]
                <= SeverityRank[getSeverity(d2, ATTENTION_THRESHOLDS[p])]

\* a scan that classified an age at a cutoff, one below all cutoffs and one
\* at the critical cutoff
C6_Witness ==
    /\ scan.phase = "done"
    /\ \E i, j, k \in 1..Len(scan.candidates) :
          /\ scan.candidates[i].item.ageDays
                = ATTENTION_THRESHOLDS[scan.candidates[i].profile].amber
          /\ scan.candidates[j].item.severity = "normal"
          /\ scan.candidates[k].item.ageDays
                = ATTENTION_THRESHOLDS[scan.candidates[k].profile].critical

Occurrences(seq, x) == Cardinality({i \in 1..Len(seq) : seq[i] = x})

IsPermutation(a, b) ==
    /\ Len(a) = Len(b)
    /\ \A i \in 1..Len(a) : Occurrences(a, a[i]) = Occurrences(b, a[i])

\* a is rightly placed before b
RankedBefore(a, b) ==
    \/ SeverityRank[a.severity] > SeverityRank[b.severity]
    \/ a.severity = b.severity /\ a.ageDays >= b.ageDays

ExampleItem(severity, ageDays) ==
    AttentionItem(<<"prob", ageDays>>, "stale-problem", 1, 1, severity, ageDays)

\* C7: the feed is a permutation of the non-normal items the five detectors
\* pushed, and of two items the earlier one is more urgent, or as urgent and
\* at least as old; red/5, critical/1, amber/30 come out as critical/1,
\* red/5, amber/30.
C7_FeedRanked ==
    /\ scan.phase = "done" =>
          /\ IsPermutation(scan.items, scan.results)
          /\ \A i \in 1..Len(scan.candidates) :
                LET c == scan.candidates[i]
                IN  c.item.severity = "normal" => Occurrences(scan.items, c.item) = 0
          /\ \A i, j \in 1..Len(scan.items) :
                i < j => RankedBefore(scan.items[i], scan.items[j])
    /\ sortItems(<<ExampleItem("red", 5), ExampleItem("critical", 1),
                   ExampleItem("amber", 30)>>)
          = <<ExampleItem("critical", 1), ExampleItem("red", 5),
              ExampleItem("amber", 30)>>

\* a feed of at least four items in which the sort moved an item forward,
\* with two items of one severity and different ages
C7_Witness ==
    /\ scan.phase = "done"
    /\ Len(scan.items) >= 4
    /\ scan.items # scan.results
    /\ \E i, j \in 1..Len(scan.items) :
          /\ i < j
          /\ scan.items[i].severity = scan.items[j].severity
          /\ scan.items[i].ageDays > scan.items[j].ageDays

----------------------------------------------------------------------------
(* C9, C10 *)

\* C9: when no replay is in progress, takeSnapshot() called in visual state
\* S and then undo(), with or without edits between the two calls, leaves
\* the current visual state equal to S.
C9_SnapshotThenUndoRestores ==
    track.c9 = "undone" => Flow(hook) = track.s

\* C10: with a non-empty past, undo() followed by redo() leaves the current
\* visual state, past and future as they were before the undo.
C10_UndoThenRedoRestores ==
    track.c10 = "redone" =>
        /\ Flow(hook) = track.pre.flow
        /\ hook.past = track.pre.past
        /\ hook.future = track.pre.future

\* an undo-redo pair begun with a snapshot in past, a state in future and a
\* current state different from the snapshot the undo restored
C10_Witness ==
    /\ track.c10 = "redone"
    /\ Len(track.pre.past) >= 1
    /\ Len(track.pre.future) >= 1
    /\ track.pre.past[Len(track.pre.past)] # track.pre.flow

----------------------------------------------------------------------------
(* C11 *)

----------------------------------------------------------------------------
(* C12 *)

DryRan == last.op = "prepareDelete"

\* the rows of the subtree of the dry run's target, and those of one kind
DoomedNodes == {n \in db.nodes : n.id \in SubtreeIds(db.nodes, last.id)}

DoomedOfType(type) == {n \in DoomedNodes : n.id # last.id /\ n.type = type}

\* C12: the summary computed for a delete of M has nodes equal to the number
\* of node rows the delete removes, M and every descendant of any kind; for
\* a root machine with one procedure child nodes is 2.
C12_SummaryCountsAllNodes ==
    DryRan => dash.deleteSummary.nodes = Cardinality(DoomedNodes)

\* C12, amended: nodes is 1 for M plus the number of descendants of kind
\* machine; sops, tools, skills and notes are the numbers of descendants of
\* these kinds; the five together count the node rows the delete removes.
C12_SummaryCountsByKind ==
    DryRan =>
        LET summary == dash.deleteSummary
        IN  /\ summary.nodes = 1 + Cardinality(DoomedOfType("machine"))
            /\ summary.sops = Cardinality(DoomedOfType("sop"))
            /\ summary.tools = Cardinality(DoomedOfType("tool"))
            /\ summary.skills = Cardinality(DoomedOfType("skill"))
            /\ summary.notes = Cardinality(DoomedOfType("note"))
            /\ summary.nodes + summary.sops + summary.tools + summary.skills
                  + summary.notes = Cardinality(DoomedNodes)
            /\ Cardinality(DoomedNodes)
                  = Cardinality(db.nodes)
                       - Cardinality(deleteRecursive(db, last.id).nodes)

\* the dry run of a root machine whose only descendant is a procedure
C12_Witness ==
    /\ DryRan
    /\ Cardinality(DoomedNodes) = 2
    /\ Cardinality(DoomedOfType("sop")) = 1
    /\ dash.deleteSummary.nodes = 1

----------------------------------------------------------------------------
(* C13 *)

\* the delete that has just run was made on the store its dry run had read
DeletedAsCounted ==
    /\ last.op = "confirmDelete"
    /\ "dry" \in DOMAIN track
    /\ track.target = last.id
    /\ track.dry = last.pre

Range(seq) == {seq[i] : i \in 1..Len(seq)}

\* C13: on an unmodified store the dry run visits exactly the nodes the
\* delete visits, each once, and its problems and edges totals are the
\* numbers of Problem and Edge rows the delete removes; the dry run itself
\* changes no collection.
C13_DryRunMirrorsDelete ==
    /\ DeletedAsCounted =>
          LET visits == countVisits(last.pre, last.id)
          IN  /\ Range(visits) = Ids(last.pre.nodes) \ Ids(db.nodes)
              /\ Len(visits) = Cardinality(Range(visits))
              /\ track.summary.problems
                    = Cardinality(last.pre.problems \ db.problems)
              /\ track.summary.edges = Cardinality(last.pre.edges \ db.edges)
    /\ DryRan => db = last.pre

\* a counted delete of a subtree three levels deep with an edge and a problem
C13_Witness ==
    /\ DeletedAsCounted
    /\ Len(countVisits(last.pre, last.id)) >= 4
    /\ track.summary.problems >= 1
    /\ track.summary.edges >= 1
    /\ \E n \in last.pre.nodes : n.parentId # NoId /\ n.parentId # last.id

----------------------------------------------------------------------------
(* C14, C15, C16 *)

\* the rows of the duplicated subtree as they were, and the clone of one
ClonedNodes == {n \in last.pre.nodes : n.id \in ClonedIds}

CloneOf(n) == CHOOSE c \in NewNodes : <<n.id, c.id>> \in last.idMap

StepIds(rows) == UNION {{n.steps[i].id : i \in 1..Len(n.steps)} : n \in rows}

\* C15: every step of every clone has done = false and an id that nothing
\* had before and no other new step has; text and order are those of the
\* original's steps, and the original rows are left as they were.
C15_ClonedStepsReset ==
    Duplicated =>
        /\ \A n \in ClonedNodes :
              LET c == CloneOf(n)
              IN  /\ Len(c.steps) = Len(n.steps)
                  /\ \A i \in 1..Len(c.steps) :
                        /\ c.steps[i].done = FALSE
                        /\ c.steps[i].text = n.steps[i].text
                        /\ c.steps[i].id \notin StepIds(last.pre.nodes)
                        /\ c.steps[i].id \notin TableIds(last.pre)
                        /\ c.steps[i].id \notin TableIds(db)
                        /\ \A j \in 1..Len(c.steps) :
                              i # j => c.steps[i].id # c.steps[j].id
                        /\ \A o \in NewNodes \ {c} :
                              c.steps[i].id \notin StepIds({o})
        /\ last.pre.nodes \subseteq db.nodes

\* a duplicate of a procedure with two steps of different text, one done
C15_Witness ==
    /\ Duplicated
    /\ \E n \in ClonedNodes :
          /\ Len(n.steps) = 2
          /\ n.steps[1].done
          /\ n.steps[1].text # n.steps[2].text
          /\ n.id # last.id

NewVCs == {v \in db.victoryConditions : v.id \notin Ids(last.pre.victoryConditions)}

\* C16: a duplicate creates, for every victory condition keyed to a node of
\* the subtree, exactly one copy, with a fresh id and keyed to that node's
\* clone, and no other one; it creates no Problem, StatusChange or Event row.
C16_VictoryConditionsCopiedOnly ==
    Duplicated =>
        /\ \A v \in last.pre.victoryConditions :
              v.machineNodeId \in ClonedIds =>
                 Cardinality({c \in NewVCs :
                                 /\ c.machineNodeId = MapGetOr(last.idMap, v.machineNodeId)
                                 /\ c.machineNodeId \in Ids(NewNodes)
                                 /\ c.met = v.met
                                 /\ c.id \notin TableIds(last.pre)
                                 /\ c.id \notin StepIds(db.nodes)})
                   = Cardinality({w \in last.pre.victoryConditions :
                                     w.machineNodeId = v.machineNodeId /\ w.met = v.met})
        /\ Cardinality(NewVCs)
              = Cardinality({v \in last.pre.victoryConditions :
                                v.machineNodeId \in ClonedIds})
        /\ Cardinality({c.id : c \in NewVCs}) = Cardinality(NewVCs)
        /\ last.pre.victoryConditions \subseteq db.victoryConditions
        /\ db.problems = last.pre.problems
        /\ db.statusChanges = last.pre.statusChanges
        /\ db.events = last.pre.events

\* a duplicate of a subtree that holds a victory condition on an inner node,
\* a problem and, in the store, an event
C16_Witness ==
    /\ Duplicated
    /\ \E v \in last.pre.victoryConditions :
          v.machineNodeId \in ClonedIds /\ v.machineNodeId # last.id
    /\ NewVCs # {}
    /\ \/ \E p \in last.pre.problems : p.machineNodeId \in ClonedIds
       \/ \E e \in last.pre.events : e.nodeId \in ClonedIds

----------------------------------------------------------------------------
(* C17 *)

\* C17: at every point of a delete, and where a rejected store call leaves
\* it, no node row that remains has a parentId naming a row the delete has
\* removed.
C17_NoParentAlreadyDeleted ==
    "gone" \in DOMAIN track =>
        \A n \in db.nodes : \A i \in 1..Len(track.gone) : n.parentId # track.gone[i]

----------------------------------------------------------------------------
(* C18 *)

\* C18: no root-resolution walk stands on the same node twice, whatever the
\* parentId pointers of the store.
C18_WalkVisitsOnce ==
    "visits" \in DOMAIN track =>
        \A i, j \in 1..Len(track.visits) :
            i # j => track.visits[i] # track.visits[j]

----------------------------------------------------------------------------
(* C19 *)

\* the five detector loops over one set of rows
Detectors(s, clock) ==
    staleProblems(s, clock) \o blockedMachines(s, clock) \o unmetVCs(s, clock)
        \o staleNodes(s, clock) \o agingCaptures(s, clock)

\* C19: a scan reads each of the five collections once and all of them
\* before its detectors run; what the detectors found is what they find in
\* the rows of those five reads, whatever has been written to the store in
\* between or since; and no step of the scan writes to the store.
C19_OneReadPerCollection ==
    /\ [](/\ \A c \in Collections : track.reads[c] <= 1
          /\ scan.phase \in {"fetched", "done"} =>
                \A c \in Collections : track.reads[c] = 1
          /\ scan.phase = "done" => scan.candidates = Detectors(scan.snapshot, now))
    /\ [][scan' # scan => db' = db]_vars

\* a scan is done over rows of which one collection was read before a write
\* to it and another after, and the store has been written to since
C19_Witness ==
    /\ "writes" \in DOMAIN track
    /\ scan.phase = "done"
    /\ track.writes = MaxWrites
    /\ scan.snapshot.statusChanges # db.statusChanges
    /\ scan.snapshot.nodes = db.nodes
    /\ scan.snapshot.problems # db.problems
    /\ Len(scan.items) > 0

----------------------------------------------------------------------------
(* C20 *)

\* the time a blocked node counts from: the latest changedAt of its changes
\* to blocked, its updatedAt when it has none
BlockedSince(s, n) ==
    LET toBlocked == {sc \in s.statusChanges :
                         sc.machineNodeId = n.id /\ sc.toStatusId = "blocked"}
    IN  IF toBlocked = {} THEN n.updatedAt
        ELSE CHOOSE t \in {sc.changedAt : sc \in toBlocked} :
                \A sc \in toBlocked : sc.changedAt <= t

BlockedItems(results, n) ==
    SelectSeq(results, LAMBDA r : r.type = "blocked-machine" /\ r.nodeId = n.id)

\* C20: when the detectors run, every blocked node of the rows read gets one
\* blocked-machine item, with the whole days since BlockedSince as ageDays,
\* if that age is 3 days or more, and no item otherwise.
C20_BlockedAgeFromLatestChange ==
    [][(scan.phase = "fetched" /\ scan'.phase = "done") =>
          \A n \in scan.snapshot.nodes :
             n.statusId = "blocked" =>
                LET age == (now - BlockedSince(scan.snapshot, n)) \div TicksPerDay
                    items == BlockedItems(scan'.results, n)
                IN  IF getSeverity(age, [amber |-> 3, red |-> 7, critical |-> 14])
                          # "normal"
                    THEN Len(items) = 1 /\ items[1].ageDays = age
                    ELSE Len(items) = 0]_vars

\* a scan done over a node blocked twice, the later time 3 days before, with
\* its item, and over a blocked node with no change row and no item
C20_Witness ==
    /\ scan.phase = "done"
    /\ \E n, m \in scan.snapshot.nodes :
          /\ n.statusId = "blocked" /\ m.statusId = "blocked"
          /\ Cardinality({sc \in scan.snapshot.statusChanges :
                             sc.machineNodeId = n.id /\ sc.toStatusId = "blocked"
                             /\ sc.changedAt <= BlockedSince(scan.snapshot, n)}) = 2
          /\ Len(BlockedItems(scan.results, n)) = 1
          /\ BlockedItems(scan.results, n)[1].ageDays = 3
          /\ \A sc \in scan.snapshot.statusChanges : sc.machineNodeId # m.id
          /\ Len(BlockedItems(scan.results, m)) = 0

----------------------------------------------------------------------------
(* C21, C22 *)

ItemsOfType(results, type, nodeId) ==
    SelectSeq(results, LAMBDA r : r.type = type /\ r.nodeId = nodeId)

\* C21: when the detectors run, a node of the rows read gets a stale-node
\* item only if it has no parent, is a machine and not blocked and its
\* updatedAt lies 7 days or more back, and then it gets one; no node gets a
\* blocked-machine item and a stale-node item from the same scan.
C21_StaleOnlyUnblockedRoots ==
    [][(scan.phase = "fetched" /\ scan'.phase = "done") =>
          /\ \A n \in scan.snapshot.nodes :
                LET stale == ItemsOfType(scan'.results, "stale-node", n.id)
                    age == (now - n.updatedAt) \div TicksPerDay
                IN  /\ Len(stale) = IF /\ n.parentId = NoId
                                       /\ n.type = "machine"
                                       /\ n.statusId # "blocked"
                                       /\ age >= 7
                                    THEN 1 ELSE 0
                    /\ Len(stale) > 0 =>
                          Len(ItemsOfType(scan'.results, "blocked-machine", n.id)) = 0
          /\ \A i \in 1..Len(scan'.results) :
                scan'.results[i].type = "stale-node" =>
                   \E n \in scan.snapshot.nodes : n.id = scan'.results[i].nodeId]_vars

\* a scan gave a stale-node item for one root machine and, for a blocked
\* root machine as old, a blocked-machine item and no stale-node item
C21_Witness ==
    /\ scan.phase = "done"
    /\ \E n, m \in scan.snapshot.nodes :
          /\ Len(ItemsOfType(scan.results, "stale-node", n.id)) = 1
          /\ m.parentId = NoId /\ m.type = "machine" /\ m.statusId = "blocked"
          /\ m.updatedAt <= n.updatedAt
          /\ Len(ItemsOfType(scan.results, "blocked-machine", m.id)) = 1
          /\ Len(ItemsOfType(scan.results, "stale-node", m.id)) = 0

VCItems(results, vc) ==
    SelectSeq(results, LAMBDA r : r.type = "unmet-vc" /\ r.id = <<"vc", vc.id>>)

\* C22: when the detectors run, a victory condition that is not met and
\* whose node was last updated 7 days or more back gets exactly one unmet-vc
\* item, with those days as ageDays; a condition that is met gets none.
C22_UnmetConditionsListed ==
    [][(scan.phase = "fetched" /\ scan'.phase = "done") =>
          \A vc \in scan.snapshot.victoryConditions :
             LET items == VCItems(scan'.results, vc)
             IN  /\ vc.met => Len(items) = 0
                 /\ \A n \in scan.snapshot.nodes :
                       (n.id = vc.machineNodeId /\ ~vc.met
                          /\ (now - n.updatedAt) \div TicksPerDay >= 7)
                       => /\ Len(items) = 1
                          /\ items[1].ageDays = (now - n.updatedAt) \div TicksPerDay
                          /\ items[1].nodeId = n.id]_vars

\* a scan listed a condition that is not met, with an age of 7 days or more,
\* over rows that hold a met condition on a node as old
C22_Witness ==
    /\ scan.phase = "done"
    /\ \E vc, met \in scan.snapshot.victoryConditions :
          /\ ~vc.met /\ met.met
          /\ Len(VCItems(scan.results, vc)) = 1
          /\ VCItems(scan.results, vc)[1].ageDays >= 7
          /\ Len(VCItems(scan.results, met)) = 0
          /\ \E n, m \in scan.snapshot.nodes :
                n.id = vc.machineNodeId /\ m.id = met.machineNodeId
                /\ m.updatedAt <= n.updatedAt

----------------------------------------------------------------------------
(* C23 *)

\* the last call was made with the callbacks of a render that had seen the
\* state the call found
FreshCall(name) ==
    /\ "call" \in DOMAIN track
    /\ track.call = name
    /\ track.c = Closure(track.pre)

\* C23: takeSnapshot() called in a state whose fingerprint is the last one
\* recorded leaves past and future as they are; called outside a replay in
\* any other state it puts the current state on top of past, below it what
\* past held, and empties future.
C23_SnapshotUnlessDuplicate ==
    FreshCall("takeSnapshot") =>
        IF track.pre.lastSaved
              = {fingerprint(track.pre.flowNodes, track.pre.flowEdges)}
        THEN hook.past = track.pre.past /\ hook.future = track.pre.future
        ELSE ~track.pre.isUndoRedo =>
                /\ hook.past = Append(track.pre.past, Flow(track.pre))
                /\ hook.future = <<>>

\* a takeSnapshot outside a replay in a state not recorded last, with a
\* snapshot in past and one in future
C23_Witness ==
    /\ FreshCall("takeSnapshot")
    /\ ~track.pre.isUndoRedo
    /\ track.pre.lastSaved # {fingerprint(track.pre.flowNodes, track.pre.flowEdges)}
    /\ Len(track.pre.past) >= 1
    /\ Len(track.pre.future) >= 1
    /\ hook.future = <<>>

----------------------------------------------------------------------------
(* C24 *)

\* the last call changed neither the stacks nor the canvas and set neither
\* the replaying flag nor a timeout
NothingDone ==
    /\ hook.past = track.pre.past
    /\ hook.future = track.pre.future
    /\ Flow(hook) = Flow(track.pre)
    /\ hook.timers <= track.pre.timers
    /\ hook.isUndoRedo => track.pre.isUndoRedo

\* C24: while the window of an undo() or redo() that changed state is open,
\* that is while its 50 ms timeout is pending, takeSnapshot() changes
\* neither past nor future; undo() with empty past and redo() with empty
\* future change nothing and start no replay.
C24_NoSnapshotInReplayWindow ==
    /\ (FreshCall("takeSnapshot") /\ track.pre.timers > 0) =>
          hook.past = track.pre.past /\ hook.future = track.pre.future
    /\ (FreshCall("undo") /\ track.pre.past = <<>>) => NothingDone
    /\ (FreshCall("redo") /\ track.pre.future = <<>>) => NothingDone

----------------------------------------------------------------------------
(* C28 *)

\* the last call, whatever render its callbacks came from
LastCall(name) == "call" \in DOMAIN track /\ track.call = name

\* C28: an undo() that takes a snapshot off past makes that snapshot the
\* current state and puts the state it replaced, once, on future; a redo()
\* does the same from future to past; also when the call comes before the
\* render that follows an earlier call.
C28_PoppedSnapshotRestored ==
    /\ (LastCall("undo") /\ Len(hook.past) < Len(track.pre.past)) =>
          /\ Flow(hook) = track.pre.past[Len(track.pre.past)]
          /\ hook.future = Append(track.pre.future, Flow(track.pre))
    /\ (LastCall("redo") /\ Len(hook.future) < Len(track.pre.future)) =>
          /\ Flow(hook) = track.pre.future[Len(track.pre.future)]
          /\ hook.past = Append(track.pre.past, Flow(track.pre))

----------------------------------------------------------------------------
(* C25 *)

\* the rows a file holds for a table
FileRows(data, t) == IF t \in data.present THEN data.rows[t] ELSE {}

\* C25: an import that went through has emptied every table and filled the
\* ten of ImportOrder in that order, so that every table of the store holds
\* exactly the rows of the file; a file without nodes or edges leaves every
\* table as it was and no call is made.
C25_ImportReplacesEveryCollection ==
    /\ track.pc = "done" => \A t \in AllTables : db[t] = FileRows(track.data, t)
    /\ track.pc = "invalid" => db = track.before /\ track.calls = <<>>

\* what does hold: the ten tables of ImportOrder are cleared in order, then
\* filled in order with the rows of the file, and statuses is never written
ImportReplacesTheTen ==
    /\ track.pc \in {"reload", "done"} =>
          /\ \A i \in 1..Len(ImportOrder) :
                db[ImportOrder[i]] = FileRows(track.data, ImportOrder[i])
          /\ SubSeq(track.calls, 1, Len(ImportOrder))
                = [i \in 1..Len(ImportOrder) |-> <<"clear", ImportOrder[i]>>]
          /\ \A i, j \in Len(ImportOrder) + 1..Len(track.calls) :
                i < j =>
                   \E a, b \in 1..Len(ImportOrder) :
                      /\ a < b
                      /\ track.calls[i] = <<"bulkAdd", ImportOrder[a]>>
                      /\ track.calls[j] = <<"bulkAdd", ImportOrder[b]>>
    /\ track.pc = "invalid" => db = track.before /\ track.calls = <<>>
    /\ db.statuses = SeededStore.statuses

----------------------------------------------------------------------------
(* C26, C27 *)

UpdatesSettled ==
    "calls" \in DOMAIN track /\ \A p \in DOMAIN track.calls : track.calls[p].pc = "idle"

StoredStatus(id) == (CHOOSE n \in db.nodes : n.id = id).statusId

\* the StatusChange rows written for a node, in the order of writing
WrittenFor(id) == SelectSeq(track.written, LAMBDA r : r.machineNodeId = id)

\* C26: as long as no store call has rejected, the StatusChange rows of a
\* node form a chain in the order they were written: the first starts from
\* the status the node had at the start, every other from the toStatusId of
\* the row before it; and when no call is in flight the last row ends at the
\* statusId the store holds for the node.
C26_StatusChangesChain ==
    ("calls" \in DOMAIN track /\ ~track.failed) =>
        \A n \in DocChain.nodes :
            LET w == WrittenFor(n.id)
            IN  Len(w) > 0 =>
                   /\ w[1].fromStatusId = n.statusId
                   /\ \A i \in 2..Len(w) : w[i].fromStatusId = w[i - 1].toStatusId
                   /\ UpdatesSettled => w[Len(w)].toStatusId = StoredStatus(n.id)

\* C27: when no call is in flight, every StatusChange row and every
\* status-change event in the store belongs to a change of statusId that
\* was written to the node.
C27_NoLogWithoutChange ==
    UpdatesSettled =>
        /\ \A sc \in db.statusChanges : sc.id \in track.persisted
        /\ Cardinality({e \in db.events : e.eventType = "status-change"})
              <= Cardinality(track.persisted)

----------------------------------------------------------------------------
(* C29 *)

\* the ids of the node rows and of the edge rows the last delete removed
RemovedNodeIds == Ids(last.pre.nodes) \ Ids(db.nodes)

RemovedEdgeIds == Ids(last.pre.edges) \ Ids(db.edges)

\* C29: after a delete, the lists the page holds (machines and allNodes on
\* the dashboard; dbNodes, flow nodes and flow edges on the whiteboard) hold
\* no node and no edge whose row the delete removed from the store.
C29_ProjectionDropsDeletedRows ==
    Deleted =>
        /\ Ids(dash.machines) \cap RemovedNodeIds = {}
        /\ Ids(dash.allNodes) \cap RemovedNodeIds = {}
        /\ Ids(wb.dbNodes) \cap RemovedNodeIds = {}
        /\ wb.flowNodes \cap RemovedNodeIds = {}
        /\ Ids(wb.flowEdges) \cap RemovedEdgeIds = {}

----------------------------------------------------------------------------
(* C30 *)

\* C30: at every point of a duplicate, and where a rejected store call
\* leaves it, every row the store held at the start is there unchanged and
\* nothing has been added to problems, status changes and events; every node
\* row added has an empty parentId or one that names a node row in the
\* store; and the clone of a node was added before the clones of its
\* children.
C30_CloneOnlyInserts ==
    track.phase # "idle" =>
        /\ track.pre.nodes \subseteq db.nodes
        /\ track.pre.edges \subseteq db.edges
        /\ track.pre.victoryConditions \subseteq db.victoryConditions
        /\ db.problems = track.pre.problems
        /\ db.statusChanges = track.pre.statusChanges
        /\ db.events = track.pre.events
        /\ db.captures = track.pre.captures
        /\ \A c \in db.nodes \ track.pre.nodes :
              c.parentId = NoId \/ c.parentId \in Ids(db.nodes)
        /\ \A j \in 1..Len(track.added) :
              track.added[j].parentId # NoId =>
                 \E i \in 1..(j - 1) : track.added[i].id = track.added[j].parentId

\* a duplicate stopped by a rejected call after it had added clones on
\* three levels, in a store that holds problems
C30_Witness ==
    /\ track.phase = "failed"
    /\ Len(track.added) >= 3
    /\ track.added[3].parentId = track.added[2].id
    /\ track.added[2].parentId = track.added[1].id
    /\ db.problems # {}
    /\ Cardinality(db.nodes) = Cardinality(track.pre.nodes) + Len(track.added)

====
